---- MODULE Spec2Model ----
(***************************************************************************)
(* Model of the debug interface (ldebug.c): the line-info decoder, the     *)
(* frame walker and the hook/trace engine.                                 *)
(*                                                                         *)
(* SpecLine  explores getfuncline / changedline over every well-formed     *)
(*           prototype up to MaxCode instructions.                         *)
(* Spec      explores sethook / getstack / tracecall / traceexec over a    *)
(*           frame chain driven by the interpreter (call, return, resume). *)
(***************************************************************************)
EXTENDS Integers, Sequences, FiniteSets, TLC

(* ------------------------------ bounds --------------------------------- *)
\* ldebug.h sets MAXIWTHABS to 128; the decoder is parametric in it and the
\* model runs it with a scaled value so that prototypes longer than one
\* anchor interval can be enumerated.  MAXIWTHABS / 2 must stay above 1 for
\* the fast path of changedline to serve adjacent instructions, as with 128.
MAXIWTHABS == 4
\* longest instruction vector enumerated by SpecLine
MaxCode == 6
\* most frames above base_ci while the hook engine runs (Spec)
MaxDepth == 1
\* most frames above base_ci in the frame-walker runs (SpecChain)
MaxChain == 3
\* largest count handed to sethook
MaxCount == 1
\* traceexec is explored until the live count has fallen this far below zero
MaxUnder == 1
\* largest count handed to sethook in the call-by-call runs (SpecTrace)
MaxTraceCount == 2
\* most extra (variadic) arguments of an inspected frame
MaxExtra == 2
\* most named locals live in an inspected frame
MaxLocals == 2
\* most slots between an inspected frame's base and its limit
MaxSlots == 3
\* most calls on locals in one behaviour
MaxOps == 1
\* longest tag string handed to getinfo
MaxTags == 3
\* longest instruction sequence whose registers are named
MaxSym == 3
\* longest instruction sequence scanned for the writer of a register
MaxScan == 4
\* longest instruction sequence of register moves
MaxMove == 4
\* width in bits of the model's l_mem and size_t
LMemBits == 5
\* blocks the model's allocator can hold at once
MaxBlocks == 2
\* largest block size requested
MaxSize == 3
\* largest magnitude of the GC debt at the start
MaxDebt == 2
\* width in bits of the model's int
IntBits == 4

(* ---------------------------- constants -------------------------------- *)
\* marks an instruction whose line comes from abslineinfo (ldebug.h: -0x80)
ABSLINEINFO == -128

\* line deltas and anchor lines the enumerated prototypes draw from
Deltas == {-1, 0, 1}
AbsLines == {20}
LineDefined == 10

\* hook masks (sol.h) and the address the model gives base_ci
SOL_MASKCALL == 1
SOL_MASKRET == 2
SOL_MASKLINE == 4
SOL_MASKCOUNT == 8
base_ci == 1

VARIABLES
    f,              \* the prototype handed to the line-info decoder
    lres,           \* the last decoder call and what it returned
    frames,         \* the CallInfo chain: frames[1] is base_ci, the last is L->ci
    hook,           \* L->hook
    hookmask,       \* L->hookmask (lu_byte)
    basehookcount,  \* L->basehookcount
    hookcount,      \* L->hookcount
    oldpc,          \* L->oldpc
    status,         \* L->status
    top,            \* L->top.p: at ci->top.p ("citop") or left open by an instruction
    running,        \* FALSE after a YIELD was thrown, until the coroutine is resumed
    resumed,        \* TRUE from a resume until the hook engine is consulted again
    last,           \* the last operation, its inputs and what it dispatched
    trc,            \* what the call-by-call runs record (pre, run below)
    sig,            \* where the interpreter stands when a signal may arrive
    api             \* what a call of the debug API works on and returned
                    \* (the fields below; [op |-> "none"] while no call is made)

\* the fields of trc
pre == trc.pre            \* the fields traceexec found when it was last called
run == trc.run            \* the hooks dispatched since the current frame was entered
\* the fields of api during calls on locals
stack == api.stack        \* the values of the stack slots, from slot 1
stacktop == api.stacktop  \* L->top.p: the first free slot
ar_ci == api.ar_ci        \* the frame a debug record names (ar->i_ci)
lout == api.lout          \* the last call on locals and what it returned
\* the fields of api during calls of getinfo
ar == api.ar              \* the fields of a debug record (sol_Debug)
apistack == api.apistack  \* the values on the stack of the caller of getinfo
gi == api.gi              \* the frame and function getinfo is asked about
iout == api.iout          \* the last getinfo call and what it returned
\* the fields of api during symbolic execution
sp == api.sp              \* the prototype under symbolic execution
sout == api.sout          \* the last query on sp and what it returned
heap == api.heap          \* size of each block of the allocator, 0 if free
GCdebt == api.GCdebt      \* g->GCdebt
debt0 == api.debt0        \* GCdebt before the first call
tests == api.tests        \* built with EMERGENCYGCTESTS
mout == api.mout          \* the last lmem call and what it returned
vec == api.vec            \* a vector: block, *psize, elements in use, limit
gout == api.gout          \* the last call on the vector and what it did

lvars == <<f, lres>>
hvars == <<frames, hook, hookmask, basehookcount, hookcount, oldpc, status,
           top, running, resumed, last>>
tvars == <<trc>>
qvars == <<api>>
xvars == <<tvars, sig, qvars>>
vars == <<f, lres, frames, hook, hookmask, basehookcount, hookcount, oldpc,
          status, top, running, resumed, last, xvars>>

(* ------------------------- prototypes (Proto) -------------------------- *)
\* One prototype's line table.  lineinfo is indexed 1..sizecode in the
\* model, i.e. lineinfo[pc + 1] is the C lineinfo[pc]; abslineinfo[i + 1]
\* is the C abslineinfo[i].
sizecode(p) == Len(p.lineinfo)
sizeabslineinfo(p) == Len(p.abslineinfo)

\* What the code generator emits per instruction: a delta, or an anchor.
LineChoice ==
    [abs : {FALSE}, v : Deltas] \cup [abs : {TRUE}, v : AbsLines]

RECURSIVE BuildAbs(_, _)
BuildAbs(c, i) ==
    IF i > Len(c) THEN <<>>
    ELSE (IF c[i].abs THEN <<[pc |-> i - 1, line |-> c[i].v]>> ELSE <<>>)
         \o BuildAbs(c, i + 1)

\* pc of the last anchor at or before pc (0 when there is none yet)
RECURSIVE LastAnchor(_, _)
LastAnchor(c, pc) ==
    IF pc < 0 THEN 0
    ELSE IF c[pc + 1].abs THEN pc ELSE LastAnchor(c, pc - 1)

\* Anchors are placed at most every MAXIWTHABS instructions.
WellSpaced(c) ==
    \A pc \in 0 .. Len(c) - 1 :
        ~c[pc + 1].abs => pc - LastAnchor(c, pc) < MAXIWTHABS

MkProto(c, hasinfo) ==
    [ haslineinfo |-> hasinfo,
      linedefined |-> LineDefined,
      lineinfo    |-> [i \in 1 .. Len(c) |->
                          IF c[i].abs THEN ABSLINEINFO ELSE c[i].v],
      abslineinfo |-> BuildAbs(c, 1) ]

\* The prototype of the decoder scenario: linedefined = 10,
\* lineinfo = [0, +1, +2, ABS, -3], abslineinfo = [(3, 15)].
ScenarioProto ==
    [ haslineinfo |-> TRUE,
      linedefined |-> 10,
      lineinfo    |-> <<0, 1, 2, ABSLINEINFO, -3>>,
      abslineinfo |-> <<[pc |-> 3, line |-> 15]>> ]

Protos ==
    { MkProto(c, TRUE) :
        c \in { d \in UNION { [1 .. n -> LineChoice] : n \in 1 .. MaxCode } :
                    WellSpaced(d) } }
    \cup { MkProto(<<[abs |-> FALSE, v |-> 1], [abs |-> FALSE, v |-> 0]>>, FALSE) }
    \cup { ScenarioProto }

(* -------------------------- line-info decoder -------------------------- *)
\* variant: the estimate is corrected by at most one entry
adjustbase_once(p, pc, i) ==
    IF i + 1 < sizeabslineinfo(p) /\ pc >= p.abslineinfo[i + 2].pc
    THEN i + 1
    ELSE i

\* getbaseline: the while loop that corrects a low estimate
RECURSIVE adjustbase(_, _, _)
adjustbase(p, pc, i) ==
    IF i + 1 < sizeabslineinfo(p) /\ pc >= p.abslineinfo[i + 2].pc
    THEN adjustbase(p, pc, i + 1)
    ELSE i

\* getbaseline(f, pc, &basepc): [basepc, baseline, ok]; ok is the value of
\* the sol_assert on the estimate
getbaseline(p, pc) ==
    IF sizeabslineinfo(p) = 0 \/ pc < p.abslineinfo[1].pc
    THEN [basepc |-> -1, baseline |-> p.linedefined, ok |-> TRUE]
    ELSE LET est == (pc \div MAXIWTHABS) - 1
             ok  == est < 0 \/ (est < sizeabslineinfo(p)
                                /\ p.abslineinfo[est + 1].pc <= pc)
             i   == IF ok THEN adjustbase(p, pc, est) ELSE 0
         IN  [basepc |-> p.abslineinfo[i + 1].pc,
              baseline |-> p.abslineinfo[i + 1].line,
              ok |-> ok]

\* variant: the walk stops one instruction short of pc
RECURSIVE walkline_short(_, _, _, _, _)
walkline_short(p, basepc, pc, baseline, ok) ==
    IF basepc + 1 < pc
    THEN walkline_short(p, basepc + 1, pc,
                        baseline + p.lineinfo[basepc + 2],
                        ok /\ p.lineinfo[basepc + 2] # ABSLINEINFO)
    ELSE [line |-> baseline, ok |-> ok]

\* the walk of solG_getfuncline: while (basepc++ < pc) baseline += lineinfo[basepc]
RECURSIVE walkline(_, _, _, _, _)
walkline(p, basepc, pc, baseline, ok) ==
    IF basepc < pc
    THEN walkline(p, basepc + 1, pc,
                  baseline + p.lineinfo[basepc + 2],
                  ok /\ p.lineinfo[basepc + 2] # ABSLINEINFO)
    ELSE [line |-> baseline, ok |-> ok]

\* solG_getfuncline with the outcome of its assertions
getfunclineA(p, pc) ==
    IF ~p.haslineinfo THEN [line |-> -1, ok |-> TRUE]
    ELSE LET b == getbaseline(p, pc)
         IN  walkline(p, b.basepc, pc, b.baseline, b.ok)

solG_getfuncline(p, pc) == getfunclineA(p, pc).line

\* variant: the loop sums a sentinel like any other delta
RECURSIVE deltaloop_nosentinel(_, _, _, _)
deltaloop_nosentinel(p, pc, newpc, delta) ==
    LET npc == pc + 1
        li  == p.lineinfo[npc + 1]
    IN  IF npc = newpc THEN [abs |-> FALSE, delta |-> delta + li]
        ELSE deltaloop_nosentinel(p, npc, newpc, delta + li)

\* the incremental loop of changedline: "delta" when newpc is reached,
\* "abs" when a sentinel is met on the way
RECURSIVE deltaloop(_, _, _, _)
deltaloop(p, pc, newpc, delta) ==
    LET npc == pc + 1
        li  == p.lineinfo[npc + 1]
    IN  IF li = ABSLINEINFO THEN [abs |-> TRUE, delta |-> 0]
        ELSE IF npc = newpc THEN [abs |-> FALSE, delta |-> delta + li]
        ELSE deltaloop(p, npc, newpc, delta + li)

\* variant: only a move to a later line counts as a change
changedline_forward(p, old, new) ==
    IF ~p.haslineinfo THEN FALSE
    ELSE solG_getfuncline(p, new) > solG_getfuncline(p, old)

changedline(p, old, new) ==
    IF ~p.haslineinfo THEN FALSE
    ELSE LET slow == solG_getfuncline(p, old) # solG_getfuncline(p, new)
         IN  IF new - old < MAXIWTHABS \div 2
             THEN LET r == deltaloop(p, old, new, 0)
                  IN  IF r.abs THEN slow ELSE r.delta # 0
             ELSE slow

(* --------------------------- interpreter state -------------------------- *)
NoCall == [op |-> "none"]
NULL == "NULL"
HookFn == "hookfn"

\* The interpreter's position between two of its steps: at names the step it
\* is about to take, mask is the local copy of hookmask inside traceexec,
\* linking is a frame whose previous is written but which is not yet L->ci,
\* armed tells that the last sethook installed a LINE or COUNT hook.
SigIdle == [at |-> "native", mask |-> 0, armed |-> FALSE, linking |-> NoCall]

\* the script functions the frames run: a three-instruction function on
\* lines 10, 10, 11 whose second instruction uses the stack top (isIT), a
\* two-instruction vararg function on lines 10, 11, and a three-instruction
\* function whose last instruction is back on its first line (10, 11, 10)
AProto ==
    [ haslineinfo |-> TRUE, linedefined |-> 10,
      lineinfo |-> <<0, 0, 1>>, abslineinfo |-> <<>>,
      isIT |-> <<FALSE, TRUE, FALSE>>, is_vararg |-> FALSE ]
VProto ==
    [ haslineinfo |-> TRUE, linedefined |-> 10,
      lineinfo |-> <<0, 1>>, abslineinfo |-> <<>>,
      isIT |-> <<FALSE, FALSE>>, is_vararg |-> TRUE ]

BProto ==
    [ haslineinfo |-> TRUE, linedefined |-> 10,
      lineinfo |-> <<0, 1, -1>>, abslineinfo |-> <<>>,
      isIT |-> <<FALSE, FALSE, FALSE>>, is_vararg |-> FALSE ]

\* ci_func(ci)->p
ci_p(fr) == IF fr.vararg THEN VProto ELSE IF fr.alt THEN BProto ELSE AProto

\* A CallInfo.  savedpc counts instructions from p->code; previous is the
\* index of the caller's CallInfo, 0 for none.  traced records that traceexec
\* was the last of sethook / tracecall / traceexec to act on the frame; alt
\* tells which of the two non-vararg functions the frame runs.
BaseFrame ==
    [ isSol |-> FALSE, vararg |-> FALSE, alt |-> FALSE, savedpc |-> 0,
      trap |-> FALSE, hookyield |-> FALSE, traced |-> FALSE, previous |-> 0 ]

NewFrame(sol, va, prev) ==
    [ isSol |-> sol, vararg |-> va, alt |-> FALSE, savedpc |-> 0,
      trap |-> FALSE, hookyield |-> FALSE, traced |-> FALSE, previous |-> prev ]

L_ci == Len(frames)

hasbit(mask, bit) == (mask \div bit) % 2 = 1
cast_byte(i) == i % 256

\* no call of the debug API is under way
IdleApi == api = [op |-> "none"]

InitEngine ==
    /\ frames = <<BaseFrame>>
    /\ hook = NULL
    /\ hookmask = 0
    /\ basehookcount = 0
    /\ hookcount = 0
    /\ oldpc = 0
    /\ status = "OK"
    /\ top = "citop"
    /\ running = TRUE
    /\ resumed = FALSE
    /\ last = [op |-> "none"]
    /\ trc = [pre |-> NoCall, run |-> NoCall]
    /\ sig = SigIdle

InitHookState ==
    /\ IdleApi
    /\ InitEngine

(* ------------------------------- sethook -------------------------------- *)
\* variant: only the current frame is armed
settraps_current(fr, ci) ==
    IF ci # 0 /\ fr[ci].isSol THEN [fr EXCEPT ![ci].trap = TRUE] ELSE fr

\* settraps: for (; ci != NULL; ci = ci->previous) if (isSol(ci)) trap = 1
RECURSIVE settraps(_, _)
settraps(fr, ci) ==
    IF ci = 0 THEN fr
    ELSE settraps(IF fr[ci].isSol THEN [fr EXCEPT ![ci].trap = TRUE] ELSE fr,
                  fr[ci].previous)

\* the hook fields sol_sethook leaves behind
sethookstate(func, mask, count) ==
    LET off == func = NULL \/ mask = 0
        m   == IF off THEN 0 ELSE mask
    IN  [ hook |-> IF off THEN NULL ELSE func,
          basehookcount |-> count,
          hookcount |-> count,
          hookmask |-> cast_byte(m),
          arm |-> m # 0 ]

SetHook(func, mask, count) ==
    LET st == sethookstate(func, mask, count)
        fr == IF st.arm THEN settraps(frames, L_ci) ELSE frames
    IN  /\ hook' = st.hook
        /\ basehookcount' = st.basehookcount
        /\ hookcount' = st.hookcount
        /\ hookmask' = st.hookmask
        /\ frames' = [i \in 1 .. Len(fr) |-> [fr[i] EXCEPT !.traced = FALSE]]
        /\ last' = [op |-> "sethook",
                    kind |-> IF func = NULL /\ mask = 0 /\ count = 0 THEN "off"
                             ELSE IF func # NULL /\ mask # 0 THEN "armed"
                             ELSE "other"]
        /\ UNCHANGED <<oldpc, status, top, running, resumed>>

(* ------------------------------- getstack ------------------------------- *)
\* for (ci = L->ci; level > 0 && ci != &L->base_ci; ci = ci->previous) level--
RECURSIVE stackwalk(_, _, _)
stackwalk(fr, ci, level) ==
    IF level > 0 /\ ci # base_ci
    THEN stackwalk(fr, fr[ci].previous, level - 1)
    ELSE [ci |-> ci, level |-> level]

\* variant: the walk's result is not tested against base_ci
getstack_nobase(fr, ci, level) ==
    IF level < 0 THEN [status |-> 0, i_ci |-> 0]
    ELSE LET w == stackwalk(fr, ci, level)
         IN  IF w.level = 0
             THEN [status |-> 1, i_ci |-> w.ci]
             ELSE [status |-> 0, i_ci |-> 0]

\* sol_getstack: the status returned and the frame stored in ar->i_ci
\* (0 when ar is not written)
sol_getstack(fr, ci, level) ==
    IF level < 0 THEN [status |-> 0, i_ci |-> 0]
    ELSE LET w == stackwalk(fr, ci, level)
         IN  IF w.level = 0 /\ w.ci # base_ci
             THEN [status |-> 1, i_ci |-> w.ci]
             ELSE [status |-> 0, i_ci |-> 0]

GetStack(level) ==
    /\ LET r == sol_getstack(frames, L_ci, level)
       IN  last' = [op |-> "getstack", level |-> level,
                    status |-> r.status, i_ci |-> r.i_ci]
    /\ UNCHANGED <<frames, hook, hookmask, basehookcount, hookcount, oldpc,
                   status, top, running, resumed>>

(* ------------------------------ tracecall ------------------------------- *)
\* variant: the vararg test is missing
tracecall_hookcall_anyfn(ci) ==
    ci.savedpc = 0 /\ ~ci.hookyield

\* whether solG_tracecall reaches solD_hookcall
tracecall_hookcall(ci) ==
    ci.savedpc = 0 /\ ~ci_p(ci).is_vararg /\ ~ci.hookyield

\* the value solG_tracecall returns
tracecall_ret(ci) ==
    IF ci.savedpc = 0 /\ ci_p(ci).is_vararg THEN 0 ELSE 1

\* y: the user hook yields when it is run
TraceCall(y) ==
    /\ running
    /\ frames[L_ci].isSol
    /\ LET ci     == frames[L_ci]
           callhk == tracecall_hookcall(ci)
       IN  /\ frames' = [frames EXCEPT ![L_ci] =
                            [@ EXCEPT !.trap = TRUE, !.traced = FALSE]]
           /\ status' = IF callhk /\ y /\ hook # NULL THEN "YIELD" ELSE status
           /\ last' = [op |-> "tracecall",
                       fired |-> IF callhk THEN <<"CALL">> ELSE <<>>,
                       ret |-> tracecall_ret(ci)]
    /\ UNCHANGED <<hook, hookmask, basehookcount, hookcount, oldpc, top,
                   running, resumed>>

(* ------------------------------ traceexec ------------------------------- *)
\* variant: the count hook is also scheduled once the count is below zero
te_counthook_below(cnt, hc1) == cnt /\ hc1 <= 0

\* counthook = (mask & SOL_MASKCOUNT) && (--L->hookcount == 0); hc1 is the
\* count after the decrement
te_counthook(cnt, hc1) == cnt /\ hc1 = 0

\* variant: the line hook is called before the count hook
te_fired_linefirst(counthook, linehook) ==
    (IF linehook THEN <<"LINE">> ELSE <<>>)
    \o (IF counthook THEN <<"COUNT">> ELSE <<>>)

\* the hooks solG_traceexec hands to solD_hook, in call order
te_fired(counthook, linehook) ==
    (IF counthook THEN <<"COUNT">> ELSE <<>>)
    \o (IF linehook THEN <<"LINE">> ELSE <<>>)

\* variant: trap is left alone when no line or count hook is enabled
te_nohooks_keeptrap(ci) == ci.trap

\* the trap flag solG_traceexec leaves when hookmask has neither LINE nor COUNT
te_nohooks_trap(ci) == FALSE

\* variant: savedpc is advanced before hookmask is tested
te_nohooks_advance(ci, pc) == pc + 1

\* the savedpc solG_traceexec leaves when hookmask has neither LINE nor COUNT
te_nohooks_savedpc(ci, pc) == ci.savedpc

\* solG_traceexec on the current frame, called for the instruction at index
\* pc; y: a hook run by this call yields.  The result holds
\* the fields the call leaves behind, the hooks dispatched and the outcome:
\* "0" / "1" returned, or "throw".  mask is the local copy of L->hookmask
\* the call works from (line 930).
traceexec_mask(mask, pc, y) ==
    LET ci   == frames[L_ci]
        p    == ci_p(ci)
        line == hasbit(mask, SOL_MASKLINE)
        cnt  == hasbit(mask, SOL_MASKCOUNT)
        keep == [ ret |-> "0", trap |-> ci.trap, savedpc |-> ci.savedpc,
                  hookyield |-> ci.hookyield, hookcount |-> hookcount,
                  oldpc |-> oldpc, status |-> status, top |-> top,
                  fired |-> <<>>, newline |-> -1 ]
    IN  IF ~(line \/ cnt)
        THEN [keep EXCEPT !.trap = te_nohooks_trap(ci),
                          !.savedpc = te_nohooks_savedpc(ci, pc)]
        ELSE
          LET hc1       == IF cnt THEN hookcount - 1 ELSE hookcount
              counthook == te_counthook(cnt, hc1)
              hc2       == IF counthook THEN basehookcount ELSE hc1
              entered   == [keep EXCEPT !.ret = "1", !.savedpc = pc + 1,
                                        !.hookcount = hc2]
          IN  IF ~counthook /\ ~line THEN entered
              ELSE IF ci.hookyield THEN [entered EXCEPT !.hookyield = FALSE]
              ELSE
                LET o        == IF oldpc < sizecode(p) THEN oldpc ELSE 0
                    npci     == pc
                    linehook == line /\ (npci <= o \/ changedline(p, o, npci))
                    st       == IF hook # NULL /\ y /\ (counthook \/ linehook)
                                THEN "YIELD" ELSE status
                    yielded  == st = "YIELD"
                IN  [ ret |-> IF yielded THEN "throw" ELSE "1",
                      trap |-> ci.trap,
                      savedpc |-> pc + 1,
                      hookyield |-> yielded,
                      hookcount |-> IF yielded /\ counthook THEN 1 ELSE hc2,
                      oldpc |-> IF line THEN npci ELSE oldpc,
                      status |-> st,
                      top |-> IF ~p.isIT[pc + 1] THEN "citop" ELSE top,
                      fired |-> te_fired(counthook, linehook),
                      newline |-> IF linehook THEN solG_getfuncline(p, npci)
                                  ELSE -1 ]

\* solG_traceexec run in one step: the mask is read and used at once
traceexec(pc, y) == traceexec_mask(hookmask, pc, y)

\* the fields solG_traceexec leaves behind when it works from mask
TraceExecMask(mask, pc, y) ==
    /\ running
    /\ frames[L_ci].isSol
    /\ pc \in 0 .. sizecode(ci_p(frames[L_ci])) - 1
    /\ resumed => pc = frames[L_ci].savedpc
    /\ hasbit(mask, SOL_MASKCOUNT) => hookcount > -MaxUnder
    /\ LET r == traceexec_mask(mask, pc, y)
       IN  /\ frames' = [frames EXCEPT ![L_ci] =
                            [@ EXCEPT !.trap = r.trap, !.savedpc = r.savedpc,
                                      !.hookyield = r.hookyield,
                                      !.traced = TRUE]]
           /\ hookcount' = r.hookcount
           /\ oldpc' = r.oldpc
           /\ status' = r.status
           /\ top' = r.top
           /\ running' = (r.ret # "throw")
           /\ last' = [op |-> "traceexec", pc |-> pc, ret |-> r.ret,
                       fired |-> r.fired, newline |-> r.newline,
                       afterresume |-> resumed,
                       washookyield |-> frames[L_ci].hookyield]
    /\ resumed' = FALSE
    /\ UNCHANGED <<hook, hookmask, basehookcount>>

\* The interpreter consults the hook engine before an instruction of the
\* current script frame when the frame's trap is set; after a resume it
\* reloads pc from savedpc.
TraceExec(pc, y) ==
    /\ frames[L_ci].trap
    /\ TraceExecMask(hookmask, pc, y)

(* --------------------- the interpreter around the engine ---------------- *)
\* a call links a new frame after the current one and makes it current; alt
\* selects the function a non-vararg script frame runs
CallFn(sol, va, alt) ==
    /\ running
    /\ ~resumed
    /\ va => sol
    /\ alt => (sol /\ ~va)
    /\ frames' = Append(frames, [NewFrame(sol, va, L_ci) EXCEPT !.alt = alt])
    /\ top' = "citop"
    /\ last' = [op |-> "call"]
    /\ UNCHANGED <<hook, hookmask, basehookcount, hookcount, oldpc, status,
                   running, resumed>>

Call(sol, va) == CallFn(sol, va, FALSE)

\* a return unlinks the current frame; the results may leave the top open
Return(open) ==
    /\ running
    /\ ~resumed
    /\ L_ci # base_ci
    /\ open => frames[frames[L_ci].previous].isSol
    /\ frames' = SubSeq(frames, 1, Len(frames) - 1)
    /\ top' = IF open THEN "open" ELSE "citop"
    /\ last' = [op |-> "return"]
    /\ UNCHANGED <<hook, hookmask, basehookcount, hookcount, oldpc, status,
                   running, resumed>>

\* resuming after a hook yielded: the instruction was not executed, so the
\* frame is re-entered at the instruction the hook was called for
Resume ==
    /\ ~running
    /\ running' = TRUE
    /\ resumed' = TRUE
    /\ status' = "OK"
    /\ frames' = [frames EXCEPT ![L_ci].savedpc = @ - 1]
    /\ last' = [op |-> "resume"]
    /\ UNCHANGED <<hook, hookmask, basehookcount, hookcount, oldpc, top>>

(* --------------------------- Spec: the engine --------------------------- *)
\* masks handed to sethook: none, CALL, LINE, COUNT, LINE|COUNT, and a value
\* with no bit inside a byte
Masks ==
    { 0, SOL_MASKCALL, SOL_MASKLINE, SOL_MASKCOUNT,
      SOL_MASKLINE + SOL_MASKCOUNT, 256 }

\* (func, mask) pairs handed to sethook
HookArgs ==
    ({NULL} \X {0, SOL_MASKLINE}) \cup ({HookFn} \X Masks)

Init ==
    /\ f = ScenarioProto
    /\ lres = NoCall
    /\ InitHookState

Next ==
    \/ \E a \in HookArgs : \E count \in 0 .. MaxCount :
          SetHook(a[1], a[2], count) /\ UNCHANGED <<lvars, xvars>>
    \/ \E y \in BOOLEAN : TraceCall(y) /\ UNCHANGED <<lvars, xvars>>
    \/ \E pc \in 0 .. sizecode(AProto) - 1 : \E y \in BOOLEAN :
          TraceExec(pc, y) /\ UNCHANGED <<lvars, xvars>>
    \/ \E sol, va \in BOOLEAN :
          Len(frames) <= MaxDepth /\ Call(sol, va) /\ UNCHANGED <<lvars, xvars>>
    \/ \E open \in BOOLEAN : Return(open) /\ UNCHANGED <<lvars, xvars>>
    \/ Resume /\ UNCHANGED <<lvars, xvars>>

Spec == Init /\ [][Next]_vars

(* ----------------------- SpecChain: the frame walker -------------------- *)
\* sethook and getstack over chains of up to MaxChain frames that the
\* interpreter links and unlinks
NextChain ==
    \/ \E a \in HookArgs : \E count \in 0 .. MaxCount :
          SetHook(a[1], a[2], count) /\ UNCHANGED <<lvars, xvars>>
    \/ \E level \in -1 .. MaxChain + 1 : GetStack(level) /\ UNCHANGED <<lvars, xvars>>
    \/ \E sol, va \in BOOLEAN :
          Len(frames) <= MaxChain /\ Call(sol, va) /\ UNCHANGED <<lvars, xvars>>
    \/ \E open \in BOOLEAN : Return(open) /\ UNCHANGED <<lvars, xvars>>

SpecChain == Init /\ [][NextChain]_vars

(* ------------------ SpecTrace: the engine, call by call ----------------- *)
\* traceexec together with a record of the fields it found (pre) and of the
\* LINE hooks of a straight-line run: run.straight holds while the current
\* frame was entered with exactly the LINE hook installed and traceexec has
\* been called for its instructions 0, 1, ... in order with no yield;
\* run.n counts the LINE hooks of those calls.
\* Script functions are entered from native code and call nothing themselves.
TraceStep(pc, y) ==
    /\ TraceExec(pc, y)
    /\ LET r == traceexec(pc, y)
       IN  trc' = [ pre |-> [ op |-> "traceexec", oldpc |-> oldpc,
                              hookcount |-> hookcount,
                              savedpc |-> frames[L_ci].savedpc, top |-> top,
                              hookyield |-> frames[L_ci].hookyield ],
                    run |-> IF run.op = "run" /\ run.straight
                               /\ pc = run.next /\ r.ret = "1"
                            THEN [run EXCEPT !.next = pc + 1,
                                             !.n = @ + (IF r.fired = <<"LINE">>
                                                        THEN 1 ELSE 0)]
                            ELSE NoCall ]

\* an instruction that leaves its results open on the stack (L->top above
\* the values the frame declares)
ExecOpen ==
    /\ running
    /\ ~resumed
    /\ frames[L_ci].isSol
    /\ top = "citop"
    /\ top' = "open"
    /\ last' = [op |-> "exec"]
    /\ trc' = [trc EXCEPT !.pre = NoCall]
    /\ UNCHANGED <<frames, hook, hookmask, basehookcount, hookcount, oldpc,
                   status, running, resumed>>

\* the masks SpecTrace hands to sethook
TraceMasks == {0, SOL_MASKLINE, SOL_MASKCOUNT, SOL_MASKLINE + SOL_MASKCOUNT}

NextTrace ==
    \/ \E func \in {NULL, HookFn} : \E mask \in TraceMasks :
          \E count \in 0 .. MaxTraceCount :
             /\ func = NULL => (mask = 0 /\ count = 0)
             /\ SetHook(func, mask, count)
             /\ trc' = [pre |-> NoCall, run |-> NoCall]
             /\ UNCHANGED <<lvars, sig, qvars>>
    \/ \E y \in BOOLEAN :
          TraceCall(y) /\ trc' = [trc EXCEPT !.pre = NoCall]
          /\ UNCHANGED <<lvars, sig, qvars>>
    \/ \E pc \in 0 .. sizecode(AProto) - 1 : \E y \in BOOLEAN :
          TraceStep(pc, y) /\ UNCHANGED <<lvars, sig, qvars>>
    \/ ExecOpen /\ UNCHANGED <<lvars, sig, qvars>>
    \/ \E va, alt \in BOOLEAN :
          /\ ~frames[L_ci].isSol
          /\ CallFn(TRUE, va, alt)
          /\ trc' = [ pre |-> NoCall,
                      run |-> [ op |-> "run", n |-> 0, next |-> 0,
                                straight |-> hook # NULL
                                             /\ hookmask = SOL_MASKLINE ] ]
          /\ UNCHANGED <<lvars, sig, qvars>>
    \/ /\ Return(FALSE)
       /\ trc' = [pre |-> NoCall, run |-> NoCall]
       /\ UNCHANGED <<lvars, sig, qvars>>
    \/ /\ Resume
       /\ trc' = [pre |-> NoCall, run |-> NoCall]
       /\ UNCHANGED <<lvars, sig, qvars>>

SpecTrace == Init /\ [][NextTrace]_vars

(* --------------- SpecSig: sethook run as a signal handler --------------- *)
\* The interpreter advances in steps between which a signal handler may run
\* sol_sethook to completion:
\*   "native"  the current frame is native code
\*   "entry"   a script frame has just become current
\*   "tc"      solG_tracecall was called; "tc_trap": it has set trap (905)
\*   "fetch"   before an instruction of the current script frame
\*   "te"      solG_traceexec was called; "te_mask": it has copied
\*             L->hookmask into mask (930)
\*   "exec"    the instruction runs
\*   "link"    a new frame is allocated and its previous is written
\* (func, mask, count) a handler hands to sethook
SigArgs ==
    { <<NULL, 0, 0>>, <<HookFn, SOL_MASKCALL, 0>>,
      <<HookFn, SOL_MASKLINE, 0>>, <<HookFn, SOL_MASKCOUNT, 1>> }

SigSetHook(func, mask, count) ==
    /\ SetHook(func, mask, count)
    /\ sig' = [sig EXCEPT !.armed =
                   func # NULL /\ ( hasbit(mask, SOL_MASKLINE)
                                  \/ hasbit(mask, SOL_MASKCOUNT) )]

\* function entry: the interpreter calls tracecall when hooks are installed
Entry ==
    /\ sig.at = "entry"
    /\ sig' = [sig EXCEPT !.at = IF hookmask # 0 THEN "tc" ELSE "fetch"]
    /\ UNCHANGED hvars

\* solG_tracecall, line 905: ci->u.l.trap = 1
TC_SetTrap ==
    /\ sig.at = "tc"
    /\ frames' = [frames EXCEPT ![L_ci].trap = TRUE]
    /\ sig' = [sig EXCEPT !.at = "tc_trap"]
    /\ UNCHANGED <<hook, hookmask, basehookcount, hookcount, oldpc, status,
                   top, running, resumed, last>>

\* solG_tracecall, lines 906-912
TC_Finish ==
    /\ sig.at = "tc_trap"
    /\ TraceCall(FALSE)
    /\ sig' = [sig EXCEPT !.at = "fetch"]

\* before an instruction the interpreter tests the frame's trap
Fetch ==
    /\ sig.at = "fetch"
    /\ sig' = [sig EXCEPT !.at = IF frames[L_ci].trap THEN "te" ELSE "exec"]
    /\ UNCHANGED hvars

\* solG_traceexec, line 930: lu_byte mask = L->hookmask
TE_ReadMask ==
    /\ sig.at = "te"
    /\ sig' = [sig EXCEPT !.at = "te_mask", !.mask = hookmask]
    /\ UNCHANGED hvars

\* solG_traceexec, lines 933-970, working from its copy of the mask
TE_Finish(pc) ==
    /\ sig.at = "te_mask"
    /\ TraceExecMask(sig.mask, pc, FALSE)
    /\ sig' = [sig EXCEPT !.at = "exec", !.mask = 0]

\* the instruction runs: it stays in the frame, calls (the new frame is
\* allocated and its previous written) or returns
ExecStay ==
    /\ sig.at = "exec"
    /\ sig' = [sig EXCEPT !.at = "fetch"]
    /\ UNCHANGED hvars

LinkPrevious(sol) ==
    /\ sig.at \in {"exec", "native"}
    /\ Len(frames) <= MaxDepth
    /\ sig' = [sig EXCEPT !.at = "link",
                          !.linking = NewFrame(sol, FALSE, L_ci)]
    /\ UNCHANGED hvars

\* the chain head is swung: the linked frame becomes L->ci
LinkCurrent ==
    /\ sig.at = "link"
    /\ frames' = Append(frames, sig.linking)
    /\ sig' = [sig EXCEPT !.at = IF sig.linking.isSol THEN "entry"
                                 ELSE "native",
                          !.linking = NoCall]
    /\ top' = "citop"
    /\ last' = [op |-> "call"]
    /\ UNCHANGED <<hook, hookmask, basehookcount, hookcount, oldpc, status,
                   running, resumed>>

ExecReturn ==
    /\ sig.at \in {"exec", "native"}
    /\ Return(FALSE)
    /\ sig' = [sig EXCEPT !.at = IF frames[frames[L_ci].previous].isSol
                                 THEN "fetch" ELSE "native"]

NextSig ==
    \/ \E a \in SigArgs :
          SigSetHook(a[1], a[2], a[3]) /\ UNCHANGED <<lvars, tvars, qvars>>
    \/ Entry /\ UNCHANGED <<lvars, tvars, qvars>>
    \/ TC_SetTrap /\ UNCHANGED <<lvars, tvars, qvars>>
    \/ TC_Finish /\ UNCHANGED <<lvars, tvars, qvars>>
    \/ Fetch /\ UNCHANGED <<lvars, tvars, qvars>>
    \/ TE_ReadMask /\ UNCHANGED <<lvars, tvars, qvars>>
    \/ \E pc \in 0 .. sizecode(AProto) - 1 :
          TE_Finish(pc) /\ UNCHANGED <<lvars, tvars, qvars>>
    \/ ExecStay /\ UNCHANGED <<lvars, tvars, qvars>>
    \/ \E sol \in BOOLEAN : LinkPrevious(sol) /\ UNCHANGED <<lvars, tvars, qvars>>
    \/ LinkCurrent /\ UNCHANGED <<lvars, tvars, qvars>>
    \/ ExecReturn /\ UNCHANGED <<lvars, tvars, qvars>>

SpecSig == Init /\ [][NextSig]_vars

(* ------------------------ SpecLine: the decoder ------------------------ *)
InitLine ==
    /\ f \in Protos
    /\ lres = NoCall
    /\ InitHookState

\* each exploration applies the decoder once to the prototype drawn by Init
GetFuncLine(pc) ==
    /\ lres = NoCall
    /\ LET r == getfunclineA(f, pc)
       IN  lres' = [op |-> "getfuncline", pc |-> pc,
                    line |-> r.line, ok |-> r.ok]
    /\ UNCHANGED <<f, hvars, xvars>>

ChangedLine(old, new) ==
    /\ lres = NoCall
    /\ lres' = [op |-> "changedline", oldpc |-> old, newpc |-> new,
                changed |-> changedline(f, old, new)]
    /\ UNCHANGED <<f, hvars, xvars>>

NextLine ==
    \/ \E pc \in 0 .. sizecode(f) - 1 : GetFuncLine(pc)
    \/ \E old \in 0 .. sizecode(f) - 2 :
          \E new \in old + 1 .. sizecode(f) - 1 : ChangedLine(old, new)

SpecLine == InitLine /\ [][NextLine]_vars

(* ----------------------- properties of the decoder --------------------- *)
\* The slow reference: scan from linedefined at pc 0, add every delta and
\* take the abslineinfo line at each sentinel.
AbsLineAt(p, pc) ==
    LET i == CHOOSE j \in 1 .. sizeabslineinfo(p) : p.abslineinfo[j].pc = pc
    IN  p.abslineinfo[i].line

RECURSIVE RefLine(_, _)
RefLine(p, pc) ==
    IF pc < 0 THEN p.linedefined
    ELSE IF p.lineinfo[pc + 1] = ABSLINEINFO THEN AbsLineAt(p, pc)
    ELSE RefLine(p, pc - 1) + p.lineinfo[pc + 1]

\* C1: for every prototype with line info and every pc in [0, sizecode),
\* getfuncline returns the line of the slow reference scan, and none of its
\* assertions (estimate is a lower bound; no sentinel in the walked range)
\* fails; without line info it returns -1.
C1_GetFuncLineIsReference ==
    lres.op = "getfuncline" =>
        IF f.haslineinfo
        THEN lres.line = RefLine(f, lres.pc) /\ lres.ok
        ELSE lres.line = -1

\* two anchors lie at or below a pc past the first anchor interval, and the
\* line found is not the line the function is defined on
C1_Witness ==
    /\ lres.op = "getfuncline"
    /\ lres.pc >= MAXIWTHABS
    /\ sizeabslineinfo(f) >= 2
    /\ f.abslineinfo[2].pc < lres.pc
    /\ lres.line # f.linedefined

\* C2: for adjacent pc, pc+1 of a prototype with line info, changedline is
\* true exactly when getfuncline gives different lines for the two, with or
\* without a sentinel at pc+1.
C2_ChangedLineAdjacent ==
    (lres.op = "changedline" /\ f.haslineinfo /\ lres.newpc = lres.oldpc + 1) =>
        (lres.changed <=>
            solG_getfuncline(f, lres.oldpc) # solG_getfuncline(f, lres.newpc))

\* a sentinel sits at pc+1 and the line did not change
C2_Witness ==
    /\ lres.op = "changedline"
    /\ f.haslineinfo
    /\ lres.newpc = lres.oldpc + 1
    /\ f.lineinfo[lres.newpc + 1] = ABSLINEINFO
    /\ ~lres.changed

ScenarioLinesClaimed == <<10, 10, 11, 13, 15, 12>>
ScenarioLines == <<10, 11, 13, 15, 12>>

\* C3 as stated: on the scenario prototype the lines per pc are
\* [10, 10, 11, 13, 15, 12].
C3_ScenarioAsStated ==
    (f = ScenarioProto /\ lres.op = "getfuncline") =>
        lres.line = ScenarioLinesClaimed[lres.pc + 1]

\* C3 amended: the scenario prototype has five instructions and the lines
\* getfuncline reports for pc 0..4 are [10, 11, 13, 15, 12].
C3_ScenarioLines ==
    /\ f = ScenarioProto => sizecode(f) = Len(ScenarioLines)
    /\ (f = ScenarioProto /\ lres.op = "getfuncline") =>
            lres.line = ScenarioLines[lres.pc + 1]

\* the instruction after the anchor of the scenario has been decoded
C3_Witness ==
    f = ScenarioProto /\ lres.op = "getfuncline" /\ lres.pc = 4 /\ lres.line = 12

(* ---------------------- properties of the frame walker ------------------ *)
\* frames above base_ci
Depth == Len(frames) - 1

\* the frame reached by following previous k times from ci
RECURSIVE FollowPrevious(_, _)
FollowPrevious(ci, k) ==
    IF k = 0 THEN ci ELSE FollowPrevious(frames[ci].previous, k - 1)

\* C4: getstack(k) returns 1 and stores the frame reached by following
\* previous k times from the current frame exactly when k >= 0 and at least
\* k+1 frames exist above base_ci; otherwise it returns 0 and stores nothing.
C4_GetStack ==
    last.op = "getstack" =>
        IF last.level >= 0 /\ Depth >= last.level + 1
        THEN last.status = 1 /\ last.i_ci = FollowPrevious(L_ci, last.level)
        ELSE last.status = 0 /\ last.i_ci = 0

\* a caller two links below the current frame was found
C4_Witness ==
    /\ last.op = "getstack"
    /\ last.level = 2
    /\ last.status = 1
    /\ last.i_ci = L_ci - 2

(* ----------------------- properties of the hook state ------------------- *)
\* C5: in every reachable state hookmask == 0 holds iff hook is null.
C5_MaskZeroIffHookNull ==
    (hookmask = 0) <=> (hook = NULL)

HooksEnabled ==
    hasbit(hookmask, SOL_MASKLINE) \/ hasbit(hookmask, SOL_MASKCOUNT)

\* C6 as stated: every frame whose trap is set has LINE or COUNT enabled in
\* hookmask, or a call/return hook pending (CALL or RET enabled).
C6_TrapImpliesHooks ==
    \A i \in 1 .. Len(frames) :
        frames[i].trap =>
            \/ HooksEnabled
            \/ hasbit(hookmask, SOL_MASKCALL)
            \/ hasbit(hookmask, SOL_MASKRET)

\* C6 amended: every frame whose trap is set and on which traceexec has run
\* since the last sethook and since the frame's last tracecall has LINE or
\* COUNT enabled in hookmask; sethook(nil, 0, 0) and tracecall leave a trap
\* set without them until that frame's next traceexec clears it.
C6_TracedTrapImpliesHooks ==
    \A i \in 1 .. Len(frames) :
        (frames[i].trap /\ frames[i].traced) => HooksEnabled

\* traceexec ran under a COUNT-only mask and left the trap of its frame set
C6_Witness ==
    /\ last.op = "traceexec"
    /\ frames[L_ci].trap
    /\ frames[L_ci].traced
    /\ hookmask = SOL_MASKCOUNT

HookFields == <<hook, hookmask, basehookcount, hookcount>>

Traps == [i \in 1 .. Len(frames) |-> frames[i].trap]

\* C7: sethook(nil, 0, 0) changes no trap flag and is idempotent (a second
\* such call made right after the first changes neither the hook fields nor
\* the frames); a sethook with a non-null function and a non-zero mask leaves
\* trap = 1 on every script frame of the chain and on no native frame.
C7_SetHookLaw ==
    [][ /\ (last'.op = "sethook" /\ last'.kind = "off") =>
              /\ Traps' = Traps
              /\ (last.op = "sethook" /\ last.kind = "off") =>
                    (HookFields' = HookFields /\ frames' = frames)
        /\ (last'.op = "sethook" /\ last'.kind = "armed") =>
              \A i \in 1 .. Len(frames') :
                  frames'[i].trap = frames'[i].isSol ]_vars

\* hooks were armed over a chain holding a native frame between two script
\* frames
C7_Witness ==
    /\ last.op = "sethook"
    /\ last.kind = "armed"
    /\ Len(frames) = 4
    /\ frames[2].isSol /\ frames[2].trap
    /\ ~frames[3].isSol /\ ~frames[3].trap
    /\ frames[4].isSol /\ frames[4].trap

(* ---------------------- properties of the trace engine ------------------ *)
\* C8: tracecall always sets trap on the current frame; it hands the frame to
\* the call-hook dispatcher exactly once when the frame is at its first
\* instruction, its function is not vararg and HOOKYIELD is clear, and not at
\* all when the function is vararg, savedpc is past the first instruction or
\* HOOKYIELD is set.
C8_TraceCall ==
    last.op = "tracecall" =>
        /\ frames[L_ci].trap
        /\ last.fired =
              IF /\ frames[L_ci].savedpc = 0
                 /\ ~frames[L_ci].vararg
                 /\ ~frames[L_ci].hookyield
              THEN <<"CALL">> ELSE <<>>

\* the call hook was dispatched for a fresh frame
C8_Witness ==
    /\ last.op = "tracecall"
    /\ last.fired = <<"CALL">>
    /\ frames[L_ci].savedpc = 0

\* C9: one traceexec call dispatches at most one COUNT hook and at most one
\* LINE hook, and COUNT before LINE when it dispatches both.
C9_CountBeforeLine ==
    last.op = "traceexec" =>
        last.fired \in { <<>>, <<"COUNT">>, <<"LINE">>, <<"COUNT", "LINE">> }

\* both hooks were dispatched by one call
C9_Witness ==
    last.op = "traceexec" /\ last.fired = <<"COUNT", "LINE">>

\* C10: a traceexec call in which a hook yields sets HOOKYIELD and throws
\* YIELD; the next traceexec call on that frame after the resume clears
\* HOOKYIELD and dispatches no hook.
C10_YieldConsumedOnResume ==
    last.op = "traceexec" =>
        /\ last.ret = "throw" =>
              (frames[L_ci].hookyield /\ status = "YIELD" /\ ~running)
        /\ last.afterresume =>
              (~frames[L_ci].hookyield /\ last.fired = <<>>)

(* ------------------- properties of traceexec, call by call -------------- *)
\* the call last made was traceexec and pre holds the fields it found
TraceExecDone == last.op = "traceexec" /\ pre.op = "traceexec"

\* C17: called while hookmask has neither LINE nor COUNT, traceexec clears
\* trap on the current frame, returns 0, dispatches no hook and leaves
\* savedpc, hookcount, oldpc, the stack top and HOOKYIELD as they were.
C17_NoHooksPath ==
    (TraceExecDone /\ ~HooksEnabled) =>
        /\ ~frames[L_ci].trap
        /\ last.ret = "0"
        /\ last.fired = <<>>
        /\ frames[L_ci].savedpc = pre.savedpc
        /\ hookcount = pre.hookcount
        /\ oldpc = pre.oldpc
        /\ top = pre.top
        /\ frames[L_ci].hookyield = pre.hookyield

\* the call found HOOKYIELD pending and was made for an instruction other
\* than the one savedpc would name
C17_Witness ==
    /\ TraceExecDone
    /\ ~HooksEnabled
    /\ pre.hookyield
    /\ frames[L_ci].hookyield
    /\ pre.savedpc # last.pc + 1

SeqRange(s) == {s[i] : i \in 1 .. Len(s)}

\* the pcs at which a straight-line run of p moves to another line
LineBlocks(p) ==
    Cardinality({pc \in 0 .. sizecode(p) - 1 :
                    pc = 0 \/ solG_getfuncline(p, pc) # solG_getfuncline(p, pc - 1)})

DistinctLines(p) ==
    Cardinality({solG_getfuncline(p, pc) : pc \in 0 .. sizecode(p) - 1})

\* with LINE enabled and no HOOKYIELD pending, a LINE hook is dispatched
\* exactly when npci <= oldpc (an oldpc >= sizecode read as 0) or the two
\* lines differ, and oldpc is npci afterwards
LineHookRule ==
    (TraceExecDone /\ hasbit(hookmask, SOL_MASKLINE) /\ ~pre.hookyield) =>
        LET p    == ci_p(frames[L_ci])
            npci == last.pc
            o    == IF pre.oldpc < sizecode(p) THEN pre.oldpc ELSE 0
        IN  /\ ("LINE" \in SeqRange(last.fired)) <=>
                  \/ npci <= o
                  \/ solG_getfuncline(p, npci) # solG_getfuncline(p, o)
            /\ oldpc = npci

\* a straight-line run of the current frame has reached the end of its code
RunComplete ==
    /\ run.op = "run"
    /\ run.straight
    /\ run.next = sizecode(ci_p(frames[L_ci]))

\* C18 as stated: the LINE rule, and a straight-line run of a function whose
\* instructions lie on two distinct lines dispatches exactly two LINE hooks.
C18_TwoLinesTwoHooks ==
    /\ LineHookRule
    /\ (RunComplete /\ DistinctLines(ci_p(frames[L_ci])) = 2) => run.n = 2

\* C18 amended: the LINE rule, and a straight-line run dispatches one LINE
\* hook for each block of consecutive instructions on one line; that is two
\* hooks only when each of the two lines is one such block.
C18_OneHookPerLineBlock ==
    /\ LineHookRule
    /\ RunComplete => run.n = LineBlocks(ci_p(frames[L_ci]))

\* the run of the function on lines 10, 11, 10 ended with three LINE hooks
C18_Witness ==
    /\ RunComplete
    /\ frames[L_ci].alt
    /\ run.n = 3
    /\ last.op = "traceexec"
    /\ last.fired = <<"LINE">>

\* C19 as stated: with COUNT enabled every call decrements the count by one,
\* and in every call where it reaches zero the count is reset to
\* basehookcount and the COUNT hook is dispatched in that call.
C19_CountHookEveryZero ==
    (TraceExecDone /\ hasbit(hookmask, SOL_MASKCOUNT)) =>
        IF pre.hookcount - 1 = 0
        THEN hookcount = basehookcount /\ "COUNT" \in SeqRange(last.fired)
        ELSE hookcount = pre.hookcount - 1 /\ "COUNT" \notin SeqRange(last.fired)

\* C19 amended: with COUNT enabled every call decrements the count by one;
\* when it reaches zero the count is reset to basehookcount and the COUNT
\* hook is dispatched in that call, except that a call that finds HOOKYIELD
\* pending resets the count, clears the flag and dispatches nothing, and a
\* call in which a hook yields leaves the count at 1.
C19_CountHookUnlessResumed ==
    (TraceExecDone /\ hasbit(hookmask, SOL_MASKCOUNT)) =>
        IF pre.hookcount - 1 = 0
        THEN IF pre.hookyield
             THEN /\ hookcount = basehookcount
                  /\ last.fired = <<>>
                  /\ ~frames[L_ci].hookyield
             ELSE /\ last.fired # <<>>
                  /\ Head(last.fired) = "COUNT"
                  /\ hookcount = IF last.ret = "throw" THEN 1 ELSE basehookcount
        ELSE /\ hookcount = pre.hookcount - 1
             /\ "COUNT" \notin SeqRange(last.fired)

\* a count of 2 ran down to zero, was reset and the hook was dispatched
C19_Witness ==
    /\ TraceExecDone
    /\ hasbit(hookmask, SOL_MASKCOUNT)
    /\ basehookcount = 2
    /\ pre.hookcount = 1
    /\ hookcount = 2
    /\ "COUNT" \in SeqRange(last.fired)

(* --------------------- sethook as a signal handler ---------------------- *)
\* C11: once a signal handler has run sethook with a non-null function and
\* LINE or COUNT in the mask, at whatever point of the interpreter's steps,
\* the next instruction of the current script frame finds trap = 1 (so that
\* traceexec is called and the hook is dispatched).
C11_SignalArmsNextInstruction ==
    (sig.at = "fetch" /\ sig.armed) => frames[L_ci].trap

(* ------------------ SpecLocal: locals of an active frame ---------------- *)
\* The stack is a row of slots; slot i of a fresh stack holds StackVal(i).
\* The inspected frame ar_ci has its function in slot ar_ci.func, its extra
\* arguments in the slots just below it and its values from ar_ci.func + 1
\* up to its limit: L->top when it is the current frame (iscur), the
\* function slot of the next frame otherwise.
StackVal(i) == 10 * i
StackSize == MaxExtra + MaxSlots + 4
LocalNames == <<"x", "y", "z", "w">>
NoLocal == [name |-> NULL, pos |-> 0]

\* solF_getlocalname(p, n, pc): the name of the n-th local live at pc
getlocalname(names, n) ==
    IF n >= 1 /\ n <= Len(names) THEN names[n] ELSE NULL

\* variant: the last extra argument is out of reach
findvararg_short(ci, n) ==
    IF ci.vararg /\ n > -ci.nextraargs
    THEN [name |-> "(vararg)", pos |-> ci.func - ci.nextraargs - (n + 1)]
    ELSE NoLocal

findvararg(ci, n) ==
    IF ci.vararg
    THEN IF n >= -ci.nextraargs
         THEN [name |-> "(vararg)", pos |-> ci.func - ci.nextraargs - (n + 1)]
         ELSE NoLocal
    ELSE NoLocal

solG_findlocal(ci, n, Ltop) ==
    LET base == ci.func + 1
        name == IF ci.isSol THEN getlocalname(ci.names, n) ELSE NULL
        limit == IF ci.iscur THEN Ltop ELSE ci.nextfunc
    IN  IF ci.isSol /\ n < 0 THEN findvararg(ci, n)
        ELSE IF name # NULL THEN [name |-> name, pos |-> base + (n - 1)]
        ELSE IF limit - base >= n /\ n > 0
             THEN [ name |-> IF ci.isSol THEN "(temporary)"
                             ELSE "(C temporary)",
                    pos |-> base + (n - 1) ]
             ELSE NoLocal

\* sol_getlocal on an active function: the stack, the top and the name after
sol_getlocal(st, Ltop, ci, n) ==
    LET r == solG_findlocal(ci, n, Ltop)
    IN  IF r.name # NULL
        THEN [ stack |-> [st EXCEPT ![Ltop] = st[r.pos]], top |-> Ltop + 1,
               name |-> r.name, pos |-> r.pos ]
        ELSE [stack |-> st, top |-> Ltop, name |-> NULL, pos |-> 0]

\* variant: the value is stored but not popped
sol_setlocal_nopop(st, Ltop, ci, n) ==
    LET r == solG_findlocal(ci, n, Ltop)
    IN  IF r.name # NULL
        THEN [ stack |-> [st EXCEPT ![r.pos] = st[Ltop - 1]], top |-> Ltop,
               name |-> r.name, pos |-> r.pos ]
        ELSE [stack |-> st, top |-> Ltop, name |-> NULL, pos |-> 0]

sol_setlocal(st, Ltop, ci, n) ==
    LET r == solG_findlocal(ci, n, Ltop)
    IN  IF r.name # NULL
        THEN [ stack |-> [st EXCEPT ![r.pos] = st[Ltop - 1]],
               top |-> Ltop - 1, name |-> r.name, pos |-> r.pos ]
        ELSE [stack |-> st, top |-> Ltop, name |-> NULL, pos |-> 0]

\* calls on locals made so far
nops == IF lout.op = "none" THEN 0 ELSE lout.k

\* lowest slot the caller of the API may pop: the inspected frame's base when
\* it is the current frame, the base of the frame above it otherwise
callerbase == IF ar_ci.iscur THEN ar_ci.func + 1 ELSE ar_ci.nextfunc + 1

InitLocal ==
    /\ f = ScenarioProto
    /\ lres = NoCall
    /\ InitEngine
    /\ \E sol, va, cur \in BOOLEAN : \E k \in 0 .. MaxExtra :
          \E nl \in 0 .. MaxLocals : \E r \in 0 .. MaxSlots : \E h \in 0 .. 1 :
             /\ va => sol
             /\ nl > 0 => sol
             /\ nl <= r
             /\ cur => h = 0
             /\ api = [ stack |-> [i \in 1 .. StackSize |-> StackVal(i)],
                        stacktop |-> IF cur THEN MaxExtra + 2 + r
                                     ELSE MaxExtra + 2 + r + 1 + h,
                        ar_ci |-> [ func |-> MaxExtra + 1, isSol |-> sol,
                                    vararg |-> va, nextraargs |-> k,
                                    names |-> SubSeq(LocalNames, 1, nl),
                                    iscur |-> cur,
                                    nextfunc |-> IF cur THEN 0
                                                 ELSE MaxExtra + 2 + r ],
                        lout |-> NoCall ]

FindLocal(n) ==
    /\ nops < MaxOps
    /\ api' = [api EXCEPT !.lout =
                  [ op |-> "findlocal", k |-> nops + 1, n |-> n,
                    r |-> solG_findlocal(ar_ci, n, stacktop),
                    top0 |-> stacktop, stack0 |-> stack ]]

\* sol_getlocal with a debug record; the caller has room for one more value
GetLocal(n) ==
    /\ nops < MaxOps
    /\ stacktop <= StackSize
    /\ LET g == sol_getlocal(stack, stacktop, ar_ci, n)
       IN  api' = [api EXCEPT
                     !.stack = g.stack,
                     !.stacktop = g.top,
                     !.lout = [ op |-> "getlocal", k |-> nops + 1, n |-> n,
                                r |-> [name |-> g.name, pos |-> g.pos],
                                top0 |-> stacktop, stack0 |-> stack ]]

\* sol_getlocal without a debug record: the names of the parameters of the
\* function on top of the stack; nothing is pushed
GetLocalOfFunction(isLfunction, np, n) ==
    /\ nops < MaxOps
    /\ stacktop - 1 >= callerbase
    /\ api' = [api EXCEPT !.lout =
                  [ op |-> "getlocal0", k |-> nops + 1, n |-> n,
                    r |-> [ name |-> IF ~isLfunction THEN NULL
                                     ELSE getlocalname(
                                              SubSeq(LocalNames, 1, np), n),
                            pos |-> 0 ],
                    top0 |-> stacktop, stack0 |-> stack ]]

\* sol_setlocal; the value to assign is on top of the caller's stack
SetLocal(n) ==
    /\ nops < MaxOps
    /\ stacktop - 1 >= callerbase
    /\ LET g == sol_setlocal(stack, stacktop, ar_ci, n)
       IN  api' = [api EXCEPT
                     !.stack = g.stack,
                     !.stacktop = g.top,
                     !.lout = [ op |-> "setlocal", k |-> nops + 1, n |-> n,
                                r |-> [name |-> g.name, pos |-> g.pos],
                                top0 |-> stacktop, stack0 |-> stack ]]

LocalArgs == -(MaxExtra + 1) .. MaxSlots + 1

NextLocal ==
    \/ \E n \in LocalArgs : FindLocal(n) /\ UNCHANGED <<lvars, hvars, tvars, sig>>
    \/ \E n \in LocalArgs : GetLocal(n) /\ UNCHANGED <<lvars, hvars, tvars, sig>>
    \/ \E isfn \in BOOLEAN : \E np \in 0 .. MaxLocals : \E n \in LocalArgs :
          GetLocalOfFunction(isfn, np, n)
          /\ UNCHANGED <<lvars, hvars, tvars, sig>>
    \/ \E n \in LocalArgs : SetLocal(n) /\ UNCHANGED <<lvars, hvars, tvars, sig>>

SpecLocal == InitLocal /\ [][NextLocal]_vars

\* C12: on a script frame of a variadic function with k extra arguments,
\* findlocal with n < 0 finds a local exactly for n in -k .. -1, named
\* "(vararg)", in slot func - k - (n + 1) (so with k = 0 even -1 fails); on a
\* script frame of a non-variadic function every n < 0 fails.
C12_VarargLocals ==
    (lout.op = "findlocal" /\ ar_ci.isSol /\ lout.n < 0) =>
        IF ar_ci.vararg /\ lout.n >= -ar_ci.nextraargs
        THEN /\ lout.r.name = "(vararg)"
             /\ lout.r.pos = ar_ci.func - ar_ci.nextraargs - (lout.n + 1)
             /\ lout.r.pos \in ar_ci.func - ar_ci.nextraargs .. ar_ci.func - 1
        ELSE lout.r.name = NULL

\* the last of two extra arguments is found in the slot just below the function
C12_Witness ==
    /\ lout.op = "findlocal"
    /\ ar_ci.isSol /\ ar_ci.vararg /\ ar_ci.nextraargs = 2
    /\ lout.n = -2
    /\ lout.r = [name |-> "(vararg)", pos |-> ar_ci.func - 1]

\* the stack s with slot i holding v
StackWith(s, i, v) == [s EXCEPT ![i] = v]

\* C13: when findlocal yields a name, getlocal pushes exactly one value, a
\* copy of the slot found, and setlocal stores the value on top of the stack
\* into the slot found and pops one value; when findlocal yields no name,
\* either call leaves the top and every slot as they were.
C13_GetSetLocal ==
    LET found == solG_findlocal(ar_ci, lout.n, lout.top0)
    IN  /\ lout.op = "getlocal" =>
            /\ lout.r = found
            /\ IF found.name # NULL
               THEN /\ stacktop = lout.top0 + 1
                    /\ stack = StackWith(lout.stack0, lout.top0,
                                         lout.stack0[found.pos])
               ELSE stacktop = lout.top0 /\ stack = lout.stack0
        /\ lout.op = "setlocal" =>
            /\ lout.r = found
            /\ IF found.name # NULL
               THEN /\ stacktop = lout.top0 - 1
                    /\ stack = StackWith(lout.stack0, found.pos,
                                         lout.stack0[lout.top0 - 1])
               ELSE stacktop = lout.top0 /\ stack = lout.stack0

\* the value on top of the caller's stack was stored into the first named
\* local of a frame below the caller's and popped
C13_Witness ==
    /\ lout.op = "setlocal"
    /\ ~ar_ci.iscur
    /\ lout.r = [name |-> "x", pos |-> ar_ci.func + 1]
    /\ stacktop = lout.top0 - 1
    /\ stack[ar_ci.func + 1] = StackVal(lout.top0 - 1)
    /\ lout.stack0[ar_ci.func + 1] = StackVal(ar_ci.func + 1)

(* -------------------- SpecInfo: the info assembler ---------------------- *)
\* A function value is a script closure over a prototype, a native closure or
\* a light native function (which is no closure); NoClosure stands for a NULL
\* Closure pointer and NoFrame for a NULL CallInfo pointer.
SolCl == [kind |-> "Sol", p |-> AProto, nupvalues |-> 1]
SolVCl == [kind |-> "Sol", p |-> VProto, nupvalues |-> 0]
CCl == [kind |-> "C", p |-> NoCall, nupvalues |-> 2]
LightC == [kind |-> "light", p |-> NoCall, nupvalues |-> 0]
NoClosure == [kind |-> "none", p |-> NoCall, nupvalues |-> 0]
NoFrame == [null |-> TRUE]
SolClosure(cl) == cl.kind = "Sol"
ttisclosure(func) == func.kind \in {"Sol", "C"}

\* the option characters auxgetinfo and sol_getinfo know
InfoTags == {"S", "l", "u", "t", "n", "r", "f", "L"}
\* the fields of the record, one per option that writes the record
ArFields == {"S", "l", "u", "t", "n", "r"}
\* the characters of the tag strings handed to getinfo
TagChars == InfoTags \cup {"x", ">"}
TagStrings == UNION { [1 .. n -> TagChars] : n \in 0 .. MaxTags }
\* a record whose fields still hold what an earlier use left there
StaleRecord == [c \in ArFields |-> [old |-> TRUE]]

\* funcinfo: source, linedefined and what (the other fields follow these)
funcinfo(cl) ==
    IF ~SolClosure(cl)
    THEN [source |-> "=[C]", linedefined |-> -1, what |-> "C"]
    ELSE [ source |-> "@chunk", linedefined |-> cl.p.linedefined,
           what |-> IF cl.p.linedefined = 0 THEN "main" ELSE "Sol" ]

\* nextline
nextline(p, currentline, pc) ==
    IF p.lineinfo[pc + 1] # ABSLINEINFO
    THEN currentline + p.lineinfo[pc + 1]
    ELSE solG_getfuncline(p, pc)

RECURSIVE validlines(_, _, _, _)
validlines(p, i, currentline, t) ==
    IF i >= Len(p.lineinfo) THEN t
    ELSE validlines(p, i + 1, nextline(p, currentline, i),
                    t \cup {nextline(p, currentline, i)})

\* collectvalidlines: the value it pushes
collectvalidlines(cl) ==
    IF ~SolClosure(cl) THEN [nil |-> TRUE]
    ELSE IF ~cl.p.haslineinfo THEN [lines |-> {}]
    ELSE IF ~cl.p.is_vararg
         THEN [lines |-> validlines(cl.p, 0, cl.p.linedefined, {})]
         ELSE [lines |-> validlines(cl.p, 1,
                                    nextline(cl.p, cl.p.linedefined, 0), {})]

\* getfuncname: the name funcnamefromcall finds in the caller, if any
getfuncname(ci) ==
    IF ~ci.null /\ ~ci.tail THEN ci.callname
    ELSE [namewhat |-> "NULL", name |-> "NULL"]

\* the value one option writes into the record
aux_field(c, cl, ci) ==
    CASE c = "S" -> funcinfo(cl)
      [] c = "l" -> [ currentline |->
                        IF ~ci.null /\ ci.isSol
                        THEN solG_getfuncline(ci.p, ci.pc) ELSE -1 ]
      [] c = "u" -> [ nups |-> IF cl.kind = "none" THEN 0 ELSE cl.nupvalues,
                      isvararg |-> IF ~SolClosure(cl) THEN TRUE
                                   ELSE cl.p.is_vararg ]
      [] c = "t" -> [istailcall |-> IF ~ci.null THEN ci.tail ELSE FALSE]
      [] c = "n" -> IF getfuncname(ci).namewhat = "NULL"
                    THEN [namewhat |-> "", name |-> "NULL"]
                    ELSE getfuncname(ci)
      [] c = "r" -> IF ci.null \/ ~ci.tran
                    THEN [ftransfer |-> 0, ntransfer |-> 0]
                    ELSE [ftransfer |-> ci.ftransfer, ntransfer |-> ci.ntransfer]

\* variant: 'f' and 'L' have no case of their own
aux_known_nofL(c) == c \in ArFields

\* the case labels of auxgetinfo's switch
aux_known(c) == c \in InfoTags

\* the loop of auxgetinfo from character i on: the record and the status
RECURSIVE auxloop(_, _, _, _, _, _)
auxloop(what, i, a, st, cl, ci) ==
    IF i > Len(what) THEN [status |-> st, ar |-> a]
    ELSE LET c == what[i]
         IN  IF c \in ArFields /\ aux_known(c)
             THEN auxloop(what, i + 1, [a EXCEPT ![c] = aux_field(c, cl, ci)],
                          st, cl, ci)
             ELSE IF aux_known(c)
             THEN auxloop(what, i + 1, a, st, cl, ci)
             ELSE auxloop(what, i + 1, a, 0, cl, ci)

auxgetinfo(what, a, cl, ci) == auxloop(what, 1, a, 1, cl, ci)

strchr(what, c) == \E i \in 1 .. Len(what) : what[i] = c

\* sol_getinfo: the status, the record and the caller's stack after the call
sol_getinfo(what, a, stk, g) ==
    LET gt == Len(what) > 0 /\ what[1] = ">"
        ci == IF gt THEN NoFrame ELSE g.ci
        func == IF gt THEN stk[Len(stk)] ELSE g.func
        w == IF gt THEN Tail(what) ELSE what
        stk1 == IF gt THEN SubSeq(stk, 1, Len(stk) - 1) ELSE stk
        cl == IF ttisclosure(func) THEN func ELSE NoClosure
        r == auxgetinfo(w, a, cl, ci)
        stk2 == IF strchr(w, "f") THEN Append(stk1, func) ELSE stk1
        stk3 == IF strchr(w, "L")
                THEN Append(stk2, collectvalidlines(cl)) ELSE stk2
    IN  [status |-> r.status, ar |-> r.ar, stack |-> stk3]

\* the frames a debug record can name and the function values a caller can
\* leave on top of its stack
InfoFrames ==
    { [ null |-> FALSE, isSol |-> fn.kind = "Sol", p |-> fn.p, pc |-> 1,
        tail |-> tl, tran |-> tr, ftransfer |-> 1, ntransfer |-> 2,
        callname |-> cn, func |-> fn ] :
        fn \in {SolCl, SolVCl, CCl, LightC}, tl \in BOOLEAN, tr \in BOOLEAN,
        cn \in { [namewhat |-> "NULL", name |-> "NULL"],
                 [namewhat |-> "global", name |-> "g"] } }

InitInfo ==
    /\ f = ScenarioProto
    /\ lres = NoCall
    /\ InitEngine
    /\ \E fr \in InfoFrames : \E fn \in {SolCl, LightC} :
          /\ fr.tail => fr.callname.namewhat = "NULL"
          /\ api = [ ar |-> StaleRecord, apistack |-> <<fn>>,
                     gi |-> [ci |-> fr, func |-> fr.func], iout |-> NoCall ]

\* sol_getinfo on a record that getstack filled, or with a leading '>' on the
\* function on top of the caller's stack
GetInfo(what) ==
    /\ iout = NoCall
    /\ LET r == sol_getinfo(what, ar, apistack, gi)
       IN  api' = [api EXCEPT
                     !.ar = r.ar,
                     !.apistack = r.stack,
                     !.iout = [ op |-> "getinfo", what |-> what,
                                status |-> r.status, ar0 |-> ar,
                                stack0 |-> apistack ]]

NextInfo ==
    /\ iout = NoCall
    /\ \E what \in TagStrings :
          GetInfo(what) /\ UNCHANGED <<lvars, hvars, tvars, sig>>

SpecInfo == InitInfo /\ [][NextInfo]_vars

\* the characters of a sequence
Chars(w) == {w[i] : i \in 1 .. Len(w)}
\* a tag string without its leading '>'
Options(w) == IF Len(w) > 0 /\ w[1] = ">" THEN Tail(w) ELSE w
\* the frame and closure a call is about
AskedFrame == IF iout.what # Options(iout.what) THEN NoFrame ELSE gi.ci
AskedFunc ==
    IF iout.what # Options(iout.what)
    THEN iout.stack0[Len(iout.stack0)] ELSE gi.func
AskedClosure == IF ttisclosure(AskedFunc) THEN AskedFunc ELSE NoClosure
\* what the recognized options of a call write and push
FieldsWritten ==
    \A c \in ArFields :
        ar[c] = IF c \in Chars(Options(iout.what))
                THEN aux_field(c, AskedClosure, AskedFrame)
                ELSE iout.ar0[c]
ValuesPushed ==
    LET w == Options(iout.what)
        below == IF w # iout.what
                 THEN SubSeq(iout.stack0, 1, Len(iout.stack0) - 1)
                 ELSE iout.stack0
    IN  apistack = below
                   \o (IF "f" \in Chars(w) THEN <<AskedFunc>> ELSE <<>>)
                   \o (IF "L" \in Chars(w)
                       THEN <<collectvalidlines(AskedClosure)>> ELSE <<>>)

\* C14 as stated: getinfo reports failure if and only if the tag string holds
\* a character outside S, l, u, t, n, r, f, L; an unknown character writes no
\* field and every recognized tag is still processed.
C14_FailureIffUnknownChar ==
    iout.op = "getinfo" =>
        /\ iout.status = 0 <=> ~(Chars(iout.what) \subseteq InfoTags)
        /\ FieldsWritten
        /\ ValuesPushed

\* C14: getinfo reports failure if and only if the tag string, not counting a
\* leading '>', holds a character outside S, l, u, t, n, r, f, L; an unknown
\* character writes no field and every recognized tag, before or after it, is
\* still processed.
C14_FailureIffUnknownOption ==
    iout.op = "getinfo" =>
        /\ iout.status \in {0, 1}
        /\ iout.status = 0 <=> ~(Chars(Options(iout.what)) \subseteq InfoTags)
        /\ FieldsWritten
        /\ ValuesPushed

\* an unknown character between two recognized tags: failure, both processed
C14_Witness ==
    /\ iout.op = "getinfo"
    /\ iout.what = <<"l", "x", "f">>
    /\ iout.status = 0
    /\ ar["l"] # iout.ar0["l"]
    /\ apistack = Append(iout.stack0, gi.func)
    /\ \A c \in ArFields \ {"l"} : ar[c] = iout.ar0[c]

(* ------------------ SpecSym, SpecScan: symbolic execution --------------- *)
\* An instruction is its opcode and its operands; Bx and sJ are read from
\* operand b and Ax from operand a.  A prototype is its code, its constants
\* (strings or not), the names of its upvalues and its local-variable table.
Ins(op, a, b, c) == [op |-> op, a |-> a, b |-> b, c |-> c, k |-> FALSE]
SymK == << [str |-> TRUE, s |-> "g"], [str |-> TRUE, s |-> "_ENV"],
           [str |-> FALSE, s |-> "7"] >>
SymUpvalues == <<"_ENV", "up">>
SOL_ENV == "_ENV"

\* opcode properties (lopcodes.c): which opcodes set register A, which call
\* a metamethod for the instruction before them
testAMode(op) ==
    op \in { "MOVE", "LOADK", "LOADKX", "LOADNIL", "GETUPVAL", "GETTABUP",
             "GETTABLE", "GETI", "GETFIELD", "SELF", "ADD", "CALL",
             "TAILCALL" }
testMMMode(op) == op \in {"MMBIN", "MMBINI", "MMBINK"}

\* solF_getlocalname: the n-th local variable active at pc
RECURSIVE getlocalname_from(_, _, _, _)
getlocalname_from(locvars, i, n, pc) ==
    IF i > Len(locvars) THEN NULL
    ELSE IF locvars[i].startpc > pc THEN NULL
    ELSE IF pc < locvars[i].endpc
         THEN IF n = 1 THEN locvars[i].varname
              ELSE getlocalname_from(locvars, i + 1, n - 1, pc)
         ELSE getlocalname_from(locvars, i + 1, n, pc)
solF_getlocalname(p, n, pc) == getlocalname_from(p.locvars, 1, n, pc)

\* variant: a write at the jump target itself is still conditional
filterpc_inclusive(pc, jmptarget) == IF pc <= jmptarget THEN -1 ELSE pc

filterpc(pc, jmptarget) == IF pc < jmptarget THEN -1 ELSE pc

\* variant: the test looks at the instruction after lastpc
scanlimit_next(p, lastpc) ==
    IF lastpc + 2 <= Len(p.code) /\ testMMMode(p.code[lastpc + 2].op)
    THEN lastpc - 1 ELSE lastpc

\* findsetreg, 440-441: where the scan stops
scanlimit(p, lastpc) ==
    IF testMMMode(p.code[lastpc + 1].op) THEN lastpc - 1 ELSE lastpc

\* findsetreg, 447-474: whether instruction i changes reg
changes(i, reg) ==
    CASE i.op = "LOADNIL" -> i.a <= reg /\ reg <= i.a + i.b
      [] i.op = "TFORCALL" -> reg >= i.a + 2
      [] i.op \in {"CALL", "TAILCALL"} -> reg >= i.a
      [] i.op = "JMP" -> FALSE
      [] OTHER -> testAMode(i.op) /\ reg = i.a

\* findsetreg, 462-467: jmptarget after instruction i at pc
jumpto(i, pc, lastpc, jmptarget) ==
    IF i.op = "JMP" /\ pc + 1 + i.b <= lastpc /\ pc + 1 + i.b > jmptarget
    THEN pc + 1 + i.b ELSE jmptarget

RECURSIVE scanloop(_, _, _, _, _, _)
scanloop(p, pc, lastpc, reg, setreg, jmptarget) ==
    IF pc >= lastpc THEN setreg
    ELSE LET i == p.code[pc + 1]
             jt == jumpto(i, pc, lastpc, jmptarget)
         IN  scanloop(p, pc + 1, lastpc, reg,
                      IF changes(i, reg) THEN filterpc(pc, jt) ELSE setreg,
                      jt)

findsetreg(p, lastpc, reg) == scanloop(p, 0, scanlimit(p, lastpc), reg, -1, 0)

kname(p, index) ==
    IF p.k[index + 1].str
    THEN [kind |-> "constant", name |-> p.k[index + 1].s]
    ELSE [kind |-> NULL, name |-> "?"]

upvalname(p, uv) == IF p.upvalues[uv + 1] = NULL THEN "?" ELSE p.upvalues[uv + 1]

\* basicgetobjname: the kind, the name and the pc left in *ppc
RECURSIVE basicgetobjname(_, _, _)
basicgetobjname(p, pc, reg) ==
    IF solF_getlocalname(p, reg + 1, pc) # NULL
    THEN [kind |-> "local", name |-> solF_getlocalname(p, reg + 1, pc),
          pc |-> pc]
    ELSE LET spc == findsetreg(p, pc, reg)
             i == p.code[spc + 1]
         IN  IF spc = -1 THEN [kind |-> NULL, name |-> NULL, pc |-> spc]
             ELSE CASE i.op = "MOVE" ->
                         IF i.b < i.a THEN basicgetobjname(p, spc, i.b)
                         ELSE [kind |-> NULL, name |-> NULL, pc |-> spc]
                    [] i.op = "GETUPVAL" ->
                         [ kind |-> "upvalue", name |-> upvalname(p, i.b),
                           pc |-> spc ]
                    [] i.op = "LOADK" ->
                         [ kind |-> kname(p, i.b).kind,
                           name |-> kname(p, i.b).name, pc |-> spc ]
                    [] i.op = "LOADKX" ->
                         [ kind |-> kname(p, p.code[spc + 2].a).kind,
                           name |-> kname(p, p.code[spc + 2].a).name,
                           pc |-> spc ]
                    [] OTHER -> [kind |-> NULL, name |-> NULL, pc |-> spc]

rname(p, pc, c) ==
    LET r == basicgetobjname(p, pc, c)
    IN  IF r.kind = "constant" THEN r.name ELSE "?"

rkname(p, pc, i) == IF i.k THEN kname(p, i.c).name ELSE rname(p, pc, i.c)

\* variant: any name found for the table register counts
isEnv_anyname(p, pc, i, isup) ==
    LET name == IF isup THEN upvalname(p, i.b)
                ELSE basicgetobjname(p, pc, i.b).name
    IN  IF name # NULL /\ name = SOL_ENV THEN "global" ELSE "field"

isEnv(p, pc, i, isup) ==
    LET what == basicgetobjname(p, pc, i.b)
        name == IF isup THEN upvalname(p, i.b)
                ELSE IF what.kind # "local" /\ what.kind # "upvalue" THEN NULL
                ELSE what.name
    IN  IF name # NULL /\ name = SOL_ENV THEN "global" ELSE "field"

\* getobjname: the kind and the name
getobjname(p, lastpc, reg) ==
    LET b == basicgetobjname(p, lastpc, reg)
        i == p.code[b.pc + 1]
    IN  IF b.kind # NULL THEN [kind |-> b.kind, name |-> b.name]
        ELSE IF b.pc = -1 THEN [kind |-> NULL, name |-> b.name]
        ELSE CASE i.op = "GETTABUP" ->
                    [ kind |-> isEnv(p, b.pc, i, TRUE),
                      name |-> kname(p, i.c).name ]
               [] i.op = "GETTABLE" ->
                    [ kind |-> isEnv(p, b.pc, i, FALSE),
                      name |-> rname(p, b.pc, i.c) ]
               [] i.op = "GETI" -> [kind |-> "field", name |-> "integer index"]
               [] i.op = "GETFIELD" ->
                    [ kind |-> isEnv(p, b.pc, i, FALSE),
                      name |-> kname(p, i.c).name ]
               [] i.op = "SELF" ->
                    [kind |-> "method", name |-> rkname(p, b.pc, i)]
               [] OTHER -> [kind |-> NULL, name |-> b.name]

\* names of the metamethod events (ltm.c), by tag
tmname == <<"index", "newindex", "gc", "mode", "len", "eq", "add">>

funcnamefromcode(p, pc) ==
    LET i == p.code[pc + 1]
    IN  CASE i.op \in {"CALL", "TAILCALL"} -> getobjname(p, pc, i.a)
          [] i.op = "TFORCALL" ->
               [kind |-> "for iterator", name |-> "for iterator"]
          [] i.op \in {"SELF", "GETTABUP", "GETTABLE", "GETI", "GETFIELD"} ->
               [kind |-> "metamethod", name |-> tmname[1]]
          [] i.op \in {"SETTABUP", "SETTABLE", "SETI", "SETFIELD"} ->
               [kind |-> "metamethod", name |-> tmname[2]]
          [] i.op \in {"MMBIN", "MMBINI", "MMBINK"} ->
               [kind |-> "metamethod", name |-> tmname[i.c + 1]]
          [] i.op = "LEN" -> [kind |-> "metamethod", name |-> tmname[5]]
          [] i.op = "EQ" -> [kind |-> "metamethod", name |-> tmname[6]]
          [] OTHER -> [kind |-> NULL, name |-> NULL]

\* the instructions of the prototypes whose registers are named
SymPool ==
    { Ins("GETUPVAL", 0, 0, 0), Ins("LOADK", 0, 1, 0), Ins("MOVE", 1, 0, 0),
      Ins("GETTABUP", 1, 0, 0), Ins("GETTABUP", 1, 1, 0),
      Ins("GETFIELD", 1, 0, 0), Ins("GETTABLE", 1, 0, 0),
      Ins("CALL", 1, 1, 1), Ins("MMBIN", 0, 0, 6), Ins("LOADKX", 0, 0, 0),
      Ins("EXTRAARG", 1, 0, 0) }
\* the instructions of the prototypes scanned for a writer
ScanPool ==
    { Ins("ADD", 0, 0, 0), Ins("JMP", 0, 1, 0), Ins("JMP", 0, 2, 0),
      Ins("JMP", 0, -1, 0), Ins("CALL", 1, 1, 1), Ins("LOADNIL", 0, 1, 0),
      Ins("MMBIN", 0, 0, 6), Ins("TFORCALL", 0, 0, 0) }
\* the local-variable tables: none, or register 0 is a local from pc 1 on
SymLocvars ==
    { <<>>, <<[varname |-> "_ENV", startpc |-> 1, endpc |-> MaxSym + 2]>>,
      <<[varname |-> "t", startpc |-> 1, endpc |-> MaxSym + 2]>> }
SymRegs == 0 .. 1
ScanRegs == 0 .. 2

\* the code generator pairs every LOADKX with the EXTRAARG after it, and
\* every jump lands inside the code
WellFormed(code) ==
    \A j \in 1 .. Len(code) :
        /\ code[j].op = "LOADKX" =>
              (j < Len(code) /\ code[j + 1].op = "EXTRAARG")
        /\ code[j].op = "EXTRAARG" => (j > 1 /\ code[j - 1].op = "LOADKX")
        /\ code[j].op = "JMP" => (j + code[j].b \in 0 .. Len(code) - 1)

MkSym(code, locvars) ==
    [code |-> code, k |-> SymK, upvalues |-> SymUpvalues, locvars |-> locvars]

InitSym ==
    /\ f = ScenarioProto
    /\ lres = NoCall
    /\ InitEngine
    /\ \E n \in 1 .. MaxSym : \E code \in [1 .. n -> SymPool] :
          \E locvars \in SymLocvars :
             /\ WellFormed(code)
             /\ api = [sp |-> MkSym(code, locvars), sout |-> NoCall]

InitScan ==
    /\ f = ScenarioProto
    /\ lres = NoCall
    /\ InitEngine
    /\ \E n \in 1 .. MaxScan : \E code \in [1 .. n -> ScanPool] :
          /\ WellFormed(code)
          /\ api = [sp |-> MkSym(code, <<>>), sout |-> NoCall]

FindSetReg(lastpc, reg) ==
    /\ lastpc \in 0 .. Len(sp.code) - 1
    /\ api' = [api EXCEPT !.sout =
                  [ op |-> "findsetreg", lastpc |-> lastpc, reg |-> reg,
                      setreg |-> findsetreg(sp, lastpc, reg) ]]

GetObjName(lastpc, reg) ==
    /\ lastpc \in 0 .. Len(sp.code) - 1
    /\ api' = [api EXCEPT !.sout =
                  [ op |-> "getobjname", lastpc |-> lastpc, reg |-> reg,
                      setreg |-> findsetreg(sp, lastpc, reg),
                      basic |-> basicgetobjname(sp, lastpc, reg),
                      r |-> getobjname(sp, lastpc, reg) ]]

FuncNameFromCode(pc) ==
    /\ pc \in 0 .. Len(sp.code) - 1
    /\ sp.code[pc + 1].op # "EXTRAARG"
    /\ api' = [api EXCEPT !.sout =
                  [ op |-> "funcnamefromcode", lastpc |-> pc,
                      reg |-> sp.code[pc + 1].a,
                      r |-> funcnamefromcode(sp, pc) ]]

NextSym ==
    /\ sout = NoCall
    /\ \/ \E lastpc \in 0 .. MaxSym : \E reg \in SymRegs :
             GetObjName(lastpc, reg)
             /\ UNCHANGED <<lvars, hvars, tvars, sig>>
       \/ \E pc \in 0 .. MaxSym :
             FuncNameFromCode(pc)
             /\ UNCHANGED <<lvars, hvars, tvars, sig>>

NextScan ==
    /\ sout = NoCall
    /\ \E lastpc \in 0 .. MaxScan : \E reg \in ScanRegs :
          FindSetReg(lastpc, reg)
          /\ UNCHANGED <<lvars, hvars, tvars, sig>>

SpecSym == InitSym /\ [][NextSym]_vars
SpecScan == InitScan /\ [][NextScan]_vars

\* ---- C20
SetMax(S) == CHOOSE x \in S : \A y \in S : y <= x
\* where the scan of the last findsetreg call stopped
ScanEnd == IF testMMMode(sp.code[sout.lastpc + 1].op)
           THEN sout.lastpc - 1 ELSE sout.lastpc
\* destinations, inside the scan window, of the jumps scanned up to pc
JmpDests(pc) ==
    { q + 1 + sp.code[q + 1].b :
        q \in { j \in 0 .. pc : /\ sp.code[j + 1].op = "JMP"
                                /\ j + 1 + sp.code[j + 1].b <= ScanEnd } }
JmpTargetAt(pc) == SetMax(JmpDests(pc) \cup {0})
\* the scanned instructions that write the register, and those of them that
\* lie at or after the jump target of their time
Writes == {pc \in 0 .. ScanEnd - 1 : changes(sp.code[pc + 1], sout.reg)}
Accepted == {pc \in Writes : pc >= JmpTargetAt(pc)}

\* C20 as stated: a write below jmptarget is discarded, a write at or after
\* jmptarget replaces the candidate, and findsetreg returns the last accepted
\* pc, or -1 when no write was accepted.
C20_LastAcceptedWrite ==
    sout.op = "findsetreg" =>
        sout.setreg = IF Accepted = {} THEN -1 ELSE SetMax(Accepted)

\* C20: a write below jmptarget resets the candidate to -1 and a write at or
\* after jmptarget replaces it, jmptarget being the largest destination, not
\* beyond the end of the scan, of the jumps scanned so far: findsetreg
\* returns the pc of the last write to the register if that write is at or
\* after jmptarget, and -1 otherwise.
C20_LastWriteIfAccepted ==
    sout.op = "findsetreg" =>
        sout.setreg = IF Writes = {} THEN -1
                      ELSE IF SetMax(Writes) \in Accepted
                           THEN SetMax(Writes) ELSE -1

\* a write, a jump over a second write, and the scan ends at the jump's
\* destination: the first write is not returned
C20_Witness ==
    /\ sout.op = "findsetreg"
    /\ sout.reg = 0
    /\ sout.lastpc = 3
    /\ sp.code[1] = Ins("ADD", 0, 0, 0)
    /\ sp.code[2] = Ins("JMP", 0, 1, 0)
    /\ sp.code[3] = Ins("ADD", 0, 0, 0)
    /\ Accepted = {0}
    /\ sout.setreg = -1

\* ---- C15
\* sp with everything after lastpc removed, and sp with one instruction after
\* lastpc replaced
Truncated(p, lastpc) == [p EXCEPT !.code = SubSeq(p.code, 1, lastpc + 1)]
Replaced(p, lastpc) ==
    { [p EXCEPT !.code[j] = i] :
        j \in lastpc + 2 .. Len(p.code), i \in SymPool }
SameAnswers(q) ==
    /\ findsetreg(q, sout.lastpc, sout.reg) = sout.setreg
    /\ basicgetobjname(q, sout.lastpc, sout.reg) = sout.basic
    /\ getobjname(q, sout.lastpc, sout.reg) = sout.r

\* C15: findsetreg, basicgetobjname and getobjname return the same result
\* when the instructions after lastpc are removed or replaced.
C15_Monotone ==
    sout.op = "getobjname" =>
        \A q \in {Truncated(sp, sout.lastpc)} \cup Replaced(sp, sout.lastpc) :
            SameAnswers(q)

\* a register named through a writer found before lastpc, with code after
\* lastpc that can be removed and replaced
C15_Witness ==
    /\ sout.op = "getobjname"
    /\ sout.lastpc = 1
    /\ Len(sp.code) = 3
    /\ sout.setreg = 0
    /\ sout.r = [kind |-> "global", name |-> "g"]
    /\ Truncated(sp, sout.lastpc) # sp
    /\ Replaced(sp, sout.lastpc) # {}

\* ---- C16
\* the instruction getobjname found to have written the register
Writer == sp.code[sout.basic.pc + 1]
WriterIsTableGet ==
    /\ sout.op = "getobjname"
    /\ sout.basic.kind = NULL
    /\ sout.basic.pc # -1
    /\ Writer.op \in {"GETTABUP", "GETTABLE", "GETFIELD"}
\* register r at pc is a local variable named _ENV, or holds a copy of the
\* upvalue named _ENV
RECURSIVE HoldsEnv(_, _, _)
HoldsEnv(p, pc, r) ==
    IF solF_getlocalname(p, r + 1, pc) # NULL
    THEN solF_getlocalname(p, r + 1, pc) = "_ENV"
    ELSE LET w == findsetreg(p, pc, r)
         IN  /\ w # -1
             /\ \/ /\ p.code[w + 1].op = "GETUPVAL"
                   /\ p.upvalues[p.code[w + 1].b + 1] = "_ENV"
                \/ /\ p.code[w + 1].op = "MOVE"
                   /\ p.code[w + 1].b < p.code[w + 1].a
                   /\ HoldsEnv(p, w, p.code[w + 1].b)
TableIsEnv ==
    IF Writer.op = "GETTABUP" THEN sp.upvalues[Writer.b + 1] = "_ENV"
    ELSE HoldsEnv(sp, sout.basic.pc, Writer.b)
\* a CALL whose function register is no live local and was last written by
\* GETTABUP on the upvalue _ENV with a string key
CallOfGlobal ==
    /\ sout.op = "funcnamefromcode"
    /\ sp.code[sout.lastpc + 1].op = "CALL"
    /\ solF_getlocalname(sp, sout.reg + 1, sout.lastpc) = NULL
    /\ LET w == findsetreg(sp, sout.lastpc, sout.reg)
       IN  /\ w # -1
           /\ sp.code[w + 1].op = "GETTABUP"
           /\ sp.upvalues[sp.code[w + 1].b + 1] = "_ENV"
           /\ sp.k[sp.code[w + 1].c + 1] = [str |-> TRUE, s |-> "g"]

\* C16: when the instruction found to have written the register is GETTABUP,
\* GETTABLE or GETFIELD, getobjname gives kind "global" if and only if the
\* indexed table is the upvalue named _ENV or a local named _ENV, and "field"
\* otherwise; a CALL on a register loaded by GETTABUP on _ENV with string key
\* g yields ("global", "g").
C16_GlobalIffEnv ==
    /\ WriterIsTableGet =>
          sout.r.kind = IF TableIsEnv THEN "global" ELSE "field"
    /\ CallOfGlobal => sout.r = [kind |-> "global", name |-> "g"]

\* GETTABUP R1 _ENV "g"; CALL R1: the call is of global g
C16_Witness ==
    /\ CallOfGlobal
    /\ sout.lastpc = 1
    /\ sp.code[1] = Ins("GETTABUP", 1, 0, 0)
    /\ sout.r = [kind |-> "global", name |-> "g"]

(* ------------- SpecMove: the recursion of basicgetobjname --------------- *)
\* variant: the source of any MOVE to another register is followed
RECURSIVE objname_calls_anymove(_, _, _)
objname_calls_anymove(p, pc, reg) ==
    IF solF_getlocalname(p, reg + 1, pc) # NULL THEN <<[pc |-> pc, reg |-> reg]>>
    ELSE LET spc == findsetreg(p, pc, reg)
             i == p.code[spc + 1]
         IN  IF spc # -1 /\ i.op = "MOVE" /\ i.b # i.a
             THEN <<[pc |-> pc, reg |-> reg]>>
                  \o objname_calls_anymove(p, spc, i.b)
             ELSE <<[pc |-> pc, reg |-> reg]>>

\* basicgetobjname, 500-513: the (pc, reg) arguments of the call and of the
\* calls nested in it, outermost first
RECURSIVE objname_calls(_, _, _)
objname_calls(p, pc, reg) ==
    IF solF_getlocalname(p, reg + 1, pc) # NULL THEN <<[pc |-> pc, reg |-> reg]>>
    ELSE LET spc == findsetreg(p, pc, reg)
             i == p.code[spc + 1]
         IN  IF spc # -1 /\ i.op = "MOVE" /\ i.b < i.a
             THEN <<[pc |-> pc, reg |-> reg]>> \o objname_calls(p, spc, i.b)
             ELSE <<[pc |-> pc, reg |-> reg]>>

\* loads and moves among three registers
MovePool ==
    { Ins("LOADK", 0, 0, 0), Ins("MOVE", 1, 0, 0), Ins("MOVE", 2, 1, 0),
      Ins("MOVE", 2, 0, 0), Ins("MOVE", 0, 1, 0), Ins("MOVE", 1, 2, 0),
      Ins("MOVE", 0, 2, 0) }
MoveRegs == 0 .. 2

InitMove ==
    /\ f = ScenarioProto
    /\ lres = NoCall
    /\ InitEngine
    /\ \E n \in 1 .. MaxMove : \E code \in [1 .. n -> MovePool] :
          api = [sp |-> MkSym(code, <<>>), sout |-> NoCall]

BasicGetObjName(lastpc, reg) ==
    /\ lastpc \in 0 .. Len(sp.code) - 1
    /\ api' = [api EXCEPT !.sout =
                  [ op |-> "basicgetobjname", lastpc |-> lastpc, reg |-> reg,
                    basic |-> basicgetobjname(sp, lastpc, reg),
                    calls |-> objname_calls(sp, lastpc, reg) ]]

NextMove ==
    /\ sout = NoCall
    /\ \E lastpc \in 0 .. MaxMove : \E reg \in MoveRegs :
          BasicGetObjName(lastpc, reg)
          /\ UNCHANGED <<lvars, hvars, tvars, sig>>

SpecMove == InitMove /\ [][NextMove]_vars

\* C21: basicgetobjname terminates: every nested call is made for the source
\* b of a MOVE a b that wrote the register of the call around it, with
\* b < a, so the registers of the nested calls fall strictly and the nesting
\* depth is at most the starting register index.
C21_MoveRecursionDescends ==
    sout.op = "basicgetobjname" =>
        LET c == sout.calls
            final == c[Len(c)]
        IN  /\ c[1] = [pc |-> sout.lastpc, reg |-> sout.reg]
            /\ \A j \in 2 .. Len(c) :
                  /\ c[j].reg < c[j - 1].reg
                  /\ c[j].pc < c[j - 1].pc
                  /\ sp.code[c[j].pc + 1].op = "MOVE"
                  /\ sp.code[c[j].pc + 1].a = c[j - 1].reg
                  /\ sp.code[c[j].pc + 1].b = c[j].reg
            /\ Len(c) - 1 <= sout.reg
            /\ sout.basic = basicgetobjname(sp, final.pc, final.reg)

\* LOADK R0; MOVE R1 R0; MOVE R2 R1: naming R2 nests two calls and finds the
\* constant
C21_Witness ==
    /\ sout.op = "basicgetobjname"
    /\ sout.reg = 2
    /\ Len(sout.calls) = 3
    /\ sout.calls[3].reg = 0
    /\ sout.basic.kind = "constant"

(* ---------------- SpecMem: the accounting of lmem.c --------------------- *)
MINSIZEARRAY == 4
\* conversion to size_t, and of a size_t back to l_mem
tosize(x) == x % (2 ^ LMemBits)
tolmem(u) == IF u >= 2 ^ (LMemBits - 1) THEN u - 2 ^ LMemBits ELSE u

Blocks == 1 .. MaxBlocks
\* block 0 is the NULL pointer; a block of size 0 is not allocated
Live(h) == {b \in Blocks : h[b] # 0}

RECURSIVE SumOver(_, _)
SumOver(h, S) ==
    IF S = {} THEN 0
    ELSE LET b == CHOOSE x \in S : TRUE IN h[b] + SumOver(h, S \ {b})
Total(h) == SumOver(h, Live(h))

\* the allocation function g->frealloc: nsize 0 frees the block and gives
\* NULL; otherwise it fails (NULL, block untouched) or gives a block of nsize
callfrealloc(h, b, ns, ok) ==
    IF ns = 0
    THEN [heap |-> IF b = 0 THEN h ELSE [h EXCEPT ![b] = 0], ret |-> 0]
    ELSE IF ~ok THEN [heap |-> h, ret |-> 0]
    ELSE IF b # 0 THEN [heap |-> [h EXCEPT ![b] = ns], ret |-> b]
    ELSE IF Blocks \ Live(h) = {} THEN [heap |-> h, ret |-> 0]
    ELSE LET n == CHOOSE x \in Blocks \ Live(h) :
                      \A y \in Blocks \ Live(h) : x <= y
         IN  [heap |-> [h EXCEPT ![n] = ns], ret |-> n]

\* with EMERGENCYGCTESTS the first try fails whenever a collection can run
firsttry(t, h, b, ns, can, ok) ==
    IF t /\ ns > 0 /\ can THEN [heap |-> h, ret |-> 0]
    ELSE callfrealloc(h, b, ns, ok)

\* variant: the block is released but the debt keeps its size
solM_free_keepdebt(m, b, osize) ==
    [heap |-> callfrealloc(m.heap, b, 0, TRUE).heap, GCdebt |-> m.GCdebt]

solM_free_(m, b, osize) ==
    [heap |-> callfrealloc(m.heap, b, 0, TRUE).heap,
     GCdebt |-> tolmem(tosize(tosize(m.GCdebt) - osize))]

\* the emergency collection: releases the blocks of S, each by solM_free_
RECURSIVE solC_fullgc(_, _)
solC_fullgc(m, S) ==
    IF S = {} THEN m
    ELSE LET b == CHOOSE x \in S : TRUE
         IN  solC_fullgc(solM_free_(m, b, m.heap[b]), S \ {b})

tryagain(m, b, ns, e) ==
    IF e.can
    THEN LET g == solC_fullgc(m, e.S)
             r == callfrealloc(g.heap, b, ns, e.ok2)
         IN  [heap |-> r.heap, GCdebt |-> g.GCdebt, ret |-> r.ret, gc |-> TRUE]
    ELSE [heap |-> m.heap, GCdebt |-> m.GCdebt, ret |-> 0, gc |-> FALSE]

solM_realloc_(t, m, b, osize, nsize, e) ==
    LET r1 == firsttry(t, m.heap, b, nsize, e.can, e.ok1)
        debt(d) == tolmem(tosize(tosize(tosize(d) + nsize) - osize))
    IN  IF r1.ret = 0 /\ nsize > 0
        THEN LET r2 == tryagain(m, b, nsize, e)
             IN  IF r2.ret = 0 THEN r2
                 ELSE [r2 EXCEPT !.GCdebt = debt(r2.GCdebt)]
        ELSE [heap |-> r1.heap, GCdebt |-> debt(m.GCdebt), ret |-> r1.ret,
              gc |-> FALSE]

\* raised: solM_error was called
solM_malloc_(t, m, size, e) ==
    IF size = 0
    THEN [heap |-> m.heap, GCdebt |-> m.GCdebt, ret |-> 0, gc |-> FALSE,
          raised |-> FALSE]
    ELSE LET r1 == firsttry(t, m.heap, 0, size, e.can, e.ok1)
             debt(d) == tolmem(tosize(tosize(d) + size))
         IN  IF r1.ret = 0
             THEN LET r2 == tryagain(m, 0, size, e)
                  IN  IF r2.ret = 0
                      THEN [heap |-> r2.heap, GCdebt |-> r2.GCdebt, ret |-> 0,
                            gc |-> r2.gc, raised |-> TRUE]
                      ELSE [heap |-> r2.heap, GCdebt |-> debt(r2.GCdebt),
                            ret |-> r2.ret, gc |-> r2.gc, raised |-> FALSE]
             ELSE [heap |-> r1.heap, GCdebt |-> debt(m.GCdebt), ret |-> r1.ret,
                   gc |-> FALSE, raised |-> FALSE]

InitMem ==
    /\ f = ScenarioProto
    /\ lres = NoCall
    /\ InitEngine
    /\ \E d \in {0 - MaxDebt, MaxDebt} : \E t \in BOOLEAN :
          api = [heap |-> [b \in Blocks |-> 0], GCdebt |-> d, debt0 |-> d,
                 tests |-> t, mout |-> NoCall]

\* the surroundings of one call: whether a collection can run, what it
\* releases, and whether each attempt of the allocation function succeeds
\* (the second attempt and the collection are drawn only where the first
\* attempt fails)
MemEnv(keep) ==
    [can : BOOLEAN, ok1 : BOOLEAN, ok2 : {FALSE}, S : {{}}]
    \cup [can : {TRUE}, ok1 : {FALSE}, ok2 : BOOLEAN,
          S : SUBSET (Live(heap) \ {keep})]

\* the sizes asked for: none, the smallest and the largest
Sizes == {0, 1, MaxSize}

Freed(r, e) == IF r.gc THEN SumOver(heap, e.S) ELSE 0

Malloc(size, e) ==
    LET r == solM_malloc_(tests, [heap |-> heap, GCdebt |-> GCdebt], size, e)
    IN  api' = [api EXCEPT !.heap = r.heap, !.GCdebt = r.GCdebt,
                  !.mout = [op |-> "malloc", osize |-> 0, nsize |-> size,
                            ret |-> r.ret, raised |-> r.raised, gc |-> r.gc,
                            delta |-> r.GCdebt - GCdebt, freed |-> Freed(r, e)]]

Realloc(b, nsize, e) ==
    LET osize == IF b = 0 THEN 0 ELSE heap[b]
        r == solM_realloc_(tests, [heap |-> heap, GCdebt |-> GCdebt], b,
                           osize, nsize, e)
    IN  /\ b = 0 \/ b \in Live(heap)
        /\ api' = [api EXCEPT !.heap = r.heap, !.GCdebt = r.GCdebt,
                     !.mout = [op |-> "realloc", osize |-> osize,
                               nsize |-> nsize, ret |-> r.ret,
                               raised |-> FALSE, gc |-> r.gc,
                               delta |-> r.GCdebt - GCdebt, freed |-> Freed(r, e)]]

Free(b) ==
    LET osize == IF b = 0 THEN 0 ELSE heap[b]
        r == solM_free_([heap |-> heap, GCdebt |-> GCdebt], b, osize)
    IN  /\ b = 0 \/ b \in Live(heap)
        /\ api' = [api EXCEPT !.heap = r.heap, !.GCdebt = r.GCdebt,
                     !.mout = [op |-> "free", osize |-> osize, nsize |-> 0,
                               ret |-> 0, raised |-> FALSE, gc |-> FALSE,
                               delta |-> r.GCdebt - GCdebt, freed |-> 0]]

NextMem ==
    \/ \E size \in Sizes : \E e \in MemEnv(0) :
          Malloc(size, e) /\ UNCHANGED <<lvars, hvars, tvars, sig>>
    \/ \E b \in 0 .. MaxBlocks : \E nsize \in Sizes : \E e \in MemEnv(b) :
          Realloc(b, nsize, e) /\ UNCHANGED <<lvars, hvars, tvars, sig>>
    \/ \E b \in 0 .. MaxBlocks :
          Free(b) /\ UNCHANGED <<lvars, hvars, tvars, sig>>

SpecMem == InitMem /\ [][NextMem]_vars

\* the change of GCdebt over the last call (mout.delta), given what the
\* call's own emergency collection released
DebtDeltas(freed) ==
    /\ (mout.op = "realloc" /\ (mout.ret # 0 \/ mout.nsize = 0))
          => mout.delta = mout.nsize - mout.osize - freed
    /\ (mout.op = "realloc" /\ mout.ret = 0 /\ mout.nsize > 0)
          => mout.delta = 0 - freed
    /\ mout.op = "free" => mout.delta = 0 - mout.osize
    /\ (mout.op = "malloc" /\ mout.ret # 0)
          => mout.delta = mout.nsize - freed

INT_MAX == 2 ^ (IntBits - 1) - 1

solM_saferealloc_(t, m, b, osize, nsize, e) ==
    LET r == solM_realloc_(t, m, b, osize, nsize, e)
    IN  [heap |-> r.heap, GCdebt |-> r.GCdebt, ret |-> r.ret,
         raised |-> (r.ret = 0 /\ nsize > 0)]

\* lines 103-112 past the "too many" test: the size asked for
newsize(size, limit) ==
    IF size >= limit \div 2 THEN limit
    ELSE IF size * 2 < MINSIZEARRAY THEN MINSIZEARRAY ELSE size * 2

\* nelems + 1 <= size in int: at nelems = INT_MAX the sum overflows, and the
\* test is then either true (the sum wrapped to INT_MIN) or false (the test
\* was compiled as nelems < size), as wraps says
fitsone(nelems, size, wraps) ==
    IF nelems + 1 > INT_MAX THEN wraps ELSE nelems + 1 <= size

\* raised: "none", "toomany" (solG_runerror) or "memory" (solM_error);
\* asked: the size in elements passed to the reallocation, 0 if none was made
solM_growaux_(t, m, b, nelems, size, size_elems, limit, e, wraps) ==
    IF fitsone(nelems, size, wraps)
    THEN [heap |-> m.heap, GCdebt |-> m.GCdebt, ret |-> b, psize |-> size,
          raised |-> "none", asked |-> 0]
    ELSE IF size >= limit \div 2 /\ size >= limit
    THEN [heap |-> m.heap, GCdebt |-> m.GCdebt, ret |-> b, psize |-> size,
          raised |-> "toomany", asked |-> 0]
    ELSE LET n == newsize(size, limit)
             r == solM_saferealloc_(t, m, b, tosize(tosize(size) * size_elems),
                                    tosize(tosize(n) * size_elems), e)
         IN  IF r.raised
             THEN [heap |-> r.heap, GCdebt |-> r.GCdebt, ret |-> b,
                   psize |-> size, raised |-> "memory", asked |-> n]
             ELSE [heap |-> r.heap, GCdebt |-> r.GCdebt, ret |-> r.ret,
                   psize |-> n, raised |-> "none", asked |-> n]

\* element sizes of the vectors
ElemSizes == {1, 2}

\* a vector of psize elements, n of them in use, in block 1 (NULL if empty)
InitGrow ==
    /\ f = ScenarioProto
    /\ lres = NoCall
    /\ InitEngine
    /\ \E limit \in 1 .. INT_MAX : \E size \in 0 .. limit : \E n \in {0, size} :
       \E se \in ElemSizes : \E t \in BOOLEAN :
          api = [heap |-> [b \in Blocks |-> IF b = 1 THEN size * se ELSE 0],
                 GCdebt |-> size * se, debt0 |-> 0, tests |-> t,
                 vec |-> [block |-> IF size = 0 THEN 0 ELSE 1, psize |-> size,
                          n |-> n, limit |-> limit, size_elems |-> se],
                 gout |-> NoCall]

\* solM_growaux_ called to make room for one more element
GrowAux(e, wraps) ==
    LET r == solM_growaux_(tests, [heap |-> heap, GCdebt |-> GCdebt],
                           vec.block, vec.n, vec.psize, vec.size_elems,
                           vec.limit, e, wraps)
    IN  api' = [api EXCEPT !.heap = r.heap, !.GCdebt = r.GCdebt,
                  !.vec.block = r.ret, !.vec.psize = r.psize,
                  !.gout = [op |-> "growaux", nelems |-> vec.n,
                            psize |-> vec.psize, block |-> vec.block,
                            bytes |-> IF vec.block = 0 THEN 0
                                      ELSE heap[vec.block],
                            ret |-> r.ret, raised |-> r.raised,
                            asked |-> r.asked]]

\* the caller stores the element the room was made for
Store ==
    /\ gout.op = "growaux"
    /\ gout.raised = "none"
    /\ vec.n < vec.psize
    /\ api' = [api EXCEPT !.vec.n = vec.n + 1, !.gout = [op |-> "store"]]

NextGrow ==
    \/ \E e \in MemEnv(vec.block) : \E wraps \in BOOLEAN :
          GrowAux(e, wraps) /\ UNCHANGED <<lvars, hvars, tvars, sig>>
    \/ Store /\ UNCHANGED <<lvars, hvars, tvars, sig>>

SpecGrow == InitGrow /\ [][NextGrow]_vars

VecBytes == IF vec.block = 0 THEN 0 ELSE heap[vec.block]

\* C23: solM_growaux_ returns the block unchanged when nelems + 1 <= *psize;
\* otherwise it raises "too many" with *psize unchanged when *psize >= limit,
\* and else reallocates to limit when *psize >= limit / 2 and to
\* max(2 * *psize, 4) otherwise; after every successful call
\* nelems + 1 <= *psize <= limit, and *psize changes only when the
\* reallocation succeeded.
C23_GrowWithinLimit ==
    gout.op = "growaux" =>
        IF gout.nelems + 1 <= gout.psize
        THEN /\ gout.raised = "none"
             /\ gout.ret = gout.block
             /\ vec.psize = gout.psize
             /\ VecBytes = gout.bytes
        ELSE IF gout.psize >= vec.limit
        THEN /\ gout.raised = "toomany"
             /\ vec.psize = gout.psize
        ELSE /\ gout.asked = IF gout.psize >= vec.limit \div 2 THEN vec.limit
                             ELSE IF 2 * gout.psize > 4 THEN 2 * gout.psize
                             ELSE 4
             /\ gout.raised \in {"none", "memory"}
             /\ gout.raised = "memory" =>
                   vec.psize = gout.psize /\ VecBytes = gout.bytes
             /\ gout.raised = "none" =>
                   /\ vec.psize = gout.asked
                   /\ VecBytes = vec.psize * vec.size_elems
                   /\ gout.nelems + 1 <= vec.psize
                   /\ vec.psize <= vec.limit

====
